---- MODULE Spec2Model ----
(***************************************************************************)
(* State-machine model of the TOS upload service (app/tos_client.py,       *)
(* app/routers/upload.py, app/routers/health.py).                          *)
(*                                                                         *)
(* Strings are sequences of one-character strings.  A payload too long to  *)
(* write out is kept in run-length form: [text, more] stands for text      *)
(* followed by `more` further "A" characters; bytes likewise are           *)
(* [head, more], head followed by `more` zero bytes.                       *)
(***************************************************************************)
EXTENDS Integers, Sequences, FiniteSets, TLC

\* ------------------------------------------------------------------ bounds

\* longest batch whose items are drawn freely from SampleRequests
MaxLen == 3
\* how far a batch may exceed the batch limit
MaxOver == 1
\* number of distinct tokens the random id source can return
MaxUid == 2
\* number of health checks in one run
MaxChecks == 3
\* last instant of loop.time() reached in one run
MaxClock == 60
\* requests in one run beyond the number of pool workers
MaxExtra == 1
\* requests of mixed kinds in one run
MaxReqs == 2
\* requests in one run of application starts and shutdowns
MaxLife == 3
\* longest text handed to the decoder
MaxText == 6

\* zero bytes between the start of a sniffed value and its tag
MaxFill == 5

\* zero bytes after the tag of a sniffed value
MaxTail == 1

\* calls of the key generator in one run
MaxKeys == 2

\* the last instant of the wall clock, in microseconds
MaxWall == 150
MaxSlack == 4

\* ------------------------------------------------- app/models.py, config.py

ImageFormat == {"jpeg", "png", "webp"}

\* Python's None where a record may stand
None == [none |-> TRUE]

\* Python's None where an ImageFormat may stand
NoFormat == "none"

max_file_size_mb == 10

ErrorCode ==
    [ SUCCESS              |-> 0,
      INVALID_FILE_FORMAT  |-> 40001,
      FILE_SIZE_EXCEEDED   |-> 40002,
      BASE64_DECODE_FAILED |-> 40003,
      MISSING_API_KEY      |-> 40101,
      INVALID_API_KEY      |-> 40102,
      TOS_UPLOAD_FAILED    |-> 50001,
      INTERNAL_ERROR       |-> 50002 ]

\* ------------------------------------------------------- app/exceptions.py

InvalidFileFormatError ==
    [code |-> ErrorCode.INVALID_FILE_FORMAT, status_code |-> 400]

FileSizeExceededError ==
    [code |-> ErrorCode.FILE_SIZE_EXCEEDED, status_code |-> 400]

Base64DecodeError ==
    [code |-> ErrorCode.BASE64_DECODE_FAILED, status_code |-> 400]

TosUploadError ==
    [code |-> ErrorCode.TOS_UPLOAD_FAILED, status_code |-> 500]

\* the classified errors (subclasses of TosUploadException) the core raises
TosUploadException ==
    {InvalidFileFormatError, FileSizeExceededError, Base64DecodeError, TosUploadError}

\* AuthenticationError(code): status 401 with the code given
AuthenticationError(code) == [code |-> code, status_code |-> 401]

\* fastapi.HTTPException(status_code)
HTTPException(status_code) == [http_status |-> status_code]

\* JSONResponse(status_code=..., content=ApiResponse(...).model_dump())
JSONResponse(status_code, success, code, data) ==
    [status_code |-> status_code,
     content |-> [success |-> success, code |-> code, data |-> data]]

\* a handler that answers every classified error with status 500
tos_exception_handler_status_500(exc) ==
    JSONResponse(500, FALSE, exc.code, None)

tos_exception_handler(exc) ==
    JSONResponse(exc.status_code, FALSE, exc.code, None)

http_exception_handler(exc) ==
    JSONResponse(exc.http_status, FALSE, exc.http_status * 100, None)

generic_exception_handler(exc) ==
    JSONResponse(500, FALSE, ErrorCode.INTERNAL_ERROR, None)

\* app.add_exception_handler for TosUploadException, HTTPException, Exception:
\* the response to an exception that leaves an endpoint or a dependency
exception_response(exc) ==
    IF "code" \in DOMAIN exc THEN tos_exception_handler(exc)
    ELSE IF "http_status" \in DOMAIN exc THEN http_exception_handler(exc)
    ELSE generic_exception_handler(exc)

\* ----------------------------------------------------- app/dependencies.py

\* settings.api_key
api_key == "test-api-key"

\* the X-API-Key header of a request: absent (None) or a string
NoHeader == [present |-> FALSE]

Header(value) == [present |-> TRUE, value |-> value]

\* a dependency that tests the presence of the header and not its value
verify_api_key_presence_only(x_api_key) ==
    IF ~x_api_key.present
    THEN [ok |-> FALSE, error |-> AuthenticationError(ErrorCode.MISSING_API_KEY)]
    ELSE [ok |-> TRUE, value |-> x_api_key.value]

\* verify_api_key: the key, or the AuthenticationError it raises
verify_api_key(x_api_key) ==
    IF ~x_api_key.present
    THEN [ok |-> FALSE, error |-> AuthenticationError(ErrorCode.MISSING_API_KEY)]
    ELSE IF x_api_key.value # api_key
    THEN [ok |-> FALSE, error |-> AuthenticationError(ErrorCode.INVALID_API_KEY)]
    ELSE [ok |-> TRUE, value |-> x_api_key.value]

\* --------------------------------------------------------- strings, bytes

Str(text, more) == [text |-> text, more |-> more]

StrLen(s) == Len(s.text) + s.more

Bytes(head, more) == [head |-> head, more |-> more]

BytesLen(d) == Len(d.head) + d.more

\* d[i] for a 1-based index inside the value
ByteAt(d, i) == IF i <= Len(d.head) THEN d.head[i] ELSE 0

\* d[:n], Python slicing: shorter when the value is
Slice(d, lo, hi) ==
    [i \in 1..(IF BytesLen(d) < hi THEN (IF BytesLen(d) < lo THEN 0 ELSE BytesLen(d) - lo) ELSE hi - lo)
        |-> ByteAt(d, lo + i)]

\* ------------------------------------------------------ app/tos_client.py

MIME_TYPES ==
    [jpeg |-> "image/jpeg", png |-> "image/png", webp |-> "image/webp"]

EXTENSIONS ==
    [jpeg |-> ".jpg", png |-> ".png", webp |-> ".webp"]

MAGIC_BYTES ==
    << << <<255, 216, 255>>, "jpeg" >>,
       << <<137, 80, 78, 71>>, "png" >>,
       << <<82, 73, 70, 70>>, "webp" >> >>

WEBP_TAG == <<87, 69, 66, 80>>

\* the for loop of _validate_image_bytes_fast from table entry k on
RECURSIVE MagicLoop(_, _)
MagicLoop(data, k) ==
    IF k > Len(MAGIC_BYTES) THEN NoFormat
    ELSE LET magic == MAGIC_BYTES[k][1]
             fmt   == MAGIC_BYTES[k][2]
         IN  IF Slice(data, 0, Len(magic)) = magic
             THEN IF fmt = "webp"
                  THEN IF BytesLen(data) >= 12 /\ Slice(data, 8, 12) = WEBP_TAG
                       THEN fmt
                       ELSE MagicLoop(data, k + 1)
                  ELSE fmt
             ELSE MagicLoop(data, k + 1)

\* _validate_image_bytes_fast without its test of len(data) < 4
_validate_image_bytes_fast_no_length(data) == MagicLoop(data, 1)

_validate_image_bytes_fast(data) ==
    IF BytesLen(data) < 4 THEN NoFormat ELSE MagicLoop(data, 1)

\* the base-64 alphabet of base64.b64decode, in value order
B64Alphabet ==
    << "A","B","C","D","E","F","G","H","I","J","K","L","M","N","O","P",
       "Q","R","S","T","U","V","W","X","Y","Z","a","b","c","d","e","f",
       "g","h","i","j","k","l","m","n","o","p","q","r","s","t","u","v",
       "w","x","y","z","0","1","2","3","4","5","6","7","8","9","+","/" >>

B64Chars == {B64Alphabet[i] : i \in 1..64}

SextetOf(c) == (CHOOSE i \in 1..64 : B64Alphabet[i] = c) - 1

\* str.find(','): 0-based index of the first comma, -1 when there is none
FindComma(text) ==
    IF \E i \in 1..Len(text) : text[i] = ","
    THEN (CHOOSE i \in 1..Len(text) :
              text[i] = "," /\ \A j \in 1..(i - 1) : text[j] # ",") - 1
    ELSE -1

\* number of "=" characters ending the text
RECURSIVE TrailingPad(_)
TrailingPad(text) ==
    IF text # <<>> /\ text[Len(text)] = "="
    THEN 1 + TrailingPad(SubSeq(text, 1, Len(text) - 1))
    ELSE 0

\* bytes of a run of sextets: 4 sextets give 3 bytes, a last group of 2 or 3
\* gives 1 or 2 bytes
RECURSIVE SextetsToBytes(_)
SextetsToBytes(q) ==
    IF Len(q) < 2 THEN <<>>
    ELSE LET b1 == (q[1] * 4 + (q[2] \div 16)) % 256
         IN  IF Len(q) = 2 THEN <<b1>>
             ELSE LET b2 == ((q[2] % 16) * 16 + (q[3] \div 4)) % 256
                  IN  IF Len(q) = 3 THEN <<b1, b2>>
                      ELSE LET b3 == ((q[3] % 4) * 64 + q[4]) % 256
                           IN  <<b1, b2, b3>> \o SextetsToBytes(SubSeq(q, 5, Len(q)))

\* binascii.a2b_base64 in strict mode: the "=" characters that may end ndata
\* alphabet characters.  A last group of 2 or 3 characters takes exactly the
\* pads that complete it; after a complete group pads are skipped, however
\* many; a text of pads alone is refused ("Leading padding not allowed")
padding_accepted(ndata, npad) ==
    CASE ndata % 4 = 0 -> (npad = 0 \/ ndata > 0)
      [] ndata % 4 = 1 -> FALSE
      [] ndata % 4 = 2 -> npad = 2
      [] ndata % 4 = 3 -> npad = 1

\* base64.b64decode(s, validate=True) on the run-length string [text, more]:
\* [ok |-> FALSE] for binascii.Error, else the bytes
b64decode(s) ==
    LET npad   == TrailingPad(s.text)
        chars  == SubSeq(s.text, 1, Len(s.text) - npad)
        ndata  == Len(chars) + s.more
        \* "A" characters needed to fill the group the written text ends in
        gap    == (4 - (Len(chars) % 4)) % 4
        fill   == IF s.more < gap THEN s.more ELSE gap
        rest   == s.more - fill
        sext   == [i \in 1..(Len(chars) + fill) |->
                      IF i <= Len(chars) THEN SextetOf(chars[i]) ELSE 0]
    IN  IF /\ \A i \in 1..Len(chars) : chars[i] \in B64Chars
           /\ (s.more > 0 => npad = 0)
           /\ padding_accepted(ndata, npad)
        THEN [ok |-> TRUE,
              bytes |-> Bytes(SextetsToBytes(sext),
                              3 * (rest \div 4)
                                + (IF rest % 4 = 0 THEN 0 ELSE (rest % 4) - 1))]
        ELSE [ok |-> FALSE]

\* a decoder that cuts the text at the comma and keeps the comma
decode_base64_image_fast_keep_comma(base64_data) ==
    LET comma_idx == FindComma(base64_data.text)
        stripped  == IF comma_idx # -1
                     THEN Str(SubSeq(base64_data.text, comma_idx + 1,
                                     Len(base64_data.text)), base64_data.more)
                     ELSE base64_data
        dec       == b64decode(stripped)
    IN  IF dec.ok THEN [ok |-> TRUE, bytes |-> dec.bytes]
        ELSE [ok |-> FALSE, error |-> Base64DecodeError]

\* TosClient.decode_base64_image_fast: the bytes, or Base64DecodeError
decode_base64_image_fast(base64_data) ==
    LET comma_idx == FindComma(base64_data.text)
        stripped  == IF comma_idx # -1
                     THEN Str(SubSeq(base64_data.text, comma_idx + 2,
                                     Len(base64_data.text)), base64_data.more)
                     ELSE base64_data
        dec       == b64decode(stripped)
    IN  IF dec.ok THEN [ok |-> TRUE, bytes |-> dec.bytes]
        ELSE [ok |-> FALSE, error |-> Base64DecodeError]

\* a key generator that gives every key the extension of a JPEG
_generate_object_key_jpg_only(prefix, format, unique_id, timestamp) ==
    <<prefix, unique_id, "_", timestamp, ".jpg">>

\* a key generator that leaves the random id out: the id field is all zeros
_generate_object_key_no_id(prefix, format, unique_id, timestamp) ==
    <<prefix, 0, "_", timestamp, EXTENSIONS[format]>>

\* TosClient._generate_object_key: prefix, 12-hex id, "_", timestamp, extension
_generate_object_key(prefix, format, unique_id, timestamp) ==
    <<prefix, unique_id, "_", timestamp, EXTENSIONS[format]>>

_public_domain == "aipohto-lky.tos-ap-southeast-1.volces.com"

_build_public_url(object_key) == <<"https://", _public_domain, "/">> \o object_key

\* ------------------------------------------------------------------ state

VARIABLES
    inbox,          \* HTTP requests not yet handed to their handler, in arrival order
    task,           \* the coroutines started so far, one record per unit of work
    work_queue,     \* ThreadPoolExecutor: units submitted and not yet started
    running,        \* ThreadPoolExecutor: units executing on a worker thread
    put_calls,      \* put_object calls issued to the backend, in start order
    head_calls,     \* number of head_bucket calls issued to the backend
    finish_order,   \* units in the order their put_object calls completed
    backend,        \* outcomes the backend may produce in this run
    uuid4,          \* the tokens uuid4().hex[:12] returns in this run, cyclically
    wall,           \* datetime.now(timezone.utc)
    batch_pc,       \* upload_batch: "none", "gather" or "done"
    requests,       \* upload_batch: its list of Base64UploadRequest
    outer,          \* asyncio.gather: the aggregate future
    batch_out,      \* upload_batch: what it returned or raised
    clock,          \* loop.time()
    _health_cache,  \* health.py: None or the entry [tos_ok, time]
    lifespan,       \* main.py lifespan: "running", "draining" or "stopped"
    _executor,      \* tos_client.py: None or the number of the pool in use
    pools,          \* every ThreadPoolExecutor constructed: its state and its units
    _client,        \* TosClient._client: None or the number of the client held
    clients_built,  \* number of TosClientV2 constructed
    constructing    \* workers past "self._client is None", not yet assigned

vars ==
    << inbox, task, work_queue, running, put_calls, head_calls, finish_order,
       backend, uuid4, wall, batch_pc, requests, outer, batch_out,
       clock, _health_cache,
       lifespan, _executor, pools, _client, clients_built, constructing >>

poolVars == <<work_queue, running, put_calls, head_calls, finish_order>>

envVars == <<backend, uuid4, wall>>

batchVars == <<batch_pc, requests, outer, batch_out>>

healthVars == <<clock, _health_cache>>

singletonVars == <<_executor, pools, _client, clients_built>>

lifeVars == <<lifespan, singletonVars, constructing>>

\* ThreadPoolExecutor(max_workers=10)
max_workers == 10

\* len(requests) > 10
MAX_BATCH == 10

HEALTH_CACHE_TTL == 30

Faults == {"TosClientError", "TosServerError", "Exception"}

Return(value) == [ok |-> TRUE, value |-> value]

Raise(error) == [ok |-> FALSE, error |-> error]

\* an exception of the backend SDK or the runtime, as raised by the call
RawFault(name) == [exception |-> name]

PutObject(key, content, content_type) ==
    [op |-> "put_object", key |-> key, content |-> content,
     content_type |-> content_type, content_length |-> BytesLen(content)]

HeadBucket == [op |-> "head_bucket"]

UploadResult(public_url, object_key, etag, size_bytes, content_type, upload_time) ==
    [public_url |-> public_url, object_key |-> object_key, etag |-> etag,
     size_bytes |-> size_bytes, content_type |-> content_type,
     upload_time |-> upload_time]

\* a coroutine: its endpoint, where it stands ("created", "awaiting" its unit
\* of work on the pool, "done", or "collected" by gather), the backend call it
\* dispatched, the executor future of that call, what the coroutine returned
\* or raised, and the local it keeps across the await (the item number of a
\* batch item, current_time of a health check)
Coroutine(ep, pc, call, out, arg) ==
    [ep |-> ep, pc |-> pc, call |-> call, fut |-> None, out |-> out, arg |-> arg]

\* strftime("%Y%m%d_%H%M%S_%f")[:20] of an instant in microseconds: the last
\* two microsecond digits are cut off
Timestamp(now) == now \div 100

\* TosClient.upload_bytes_async up to its await: the coroutine it leaves
upload_bytes_async(ep, data, format, prefix, validate, unique_id, now) ==
    IF validate /\ _validate_image_bytes_fast(data) = NoFormat
    THEN Coroutine(ep, "done", None, Raise(InvalidFileFormatError), None)
    ELSE LET object_key   == _generate_object_key(prefix, format, unique_id,
                                                  Timestamp(now))
             content_type == MIME_TYPES[format]
         IN  Coroutine(ep, "awaiting", PutObject(object_key, data, content_type),
                       None, None)

\* a bridge that reports a key generated anew after the store call
upload_bytes_result_new_key(call, fut, now) ==
    LET object_key == [call.key EXCEPT ![4] = Timestamp(now) + 1]
    IN  IF fut.ok
        THEN Return(UploadResult(_build_public_url(object_key), object_key,
                                 fut.value.etag, BytesLen(call.content),
                                 call.content_type, now))
        ELSE Raise(TosUploadError)

\* a bridge whose handlers catch the two SDK exception types only
upload_bytes_result_uncaught(call, fut, now) ==
    IF fut.ok
    THEN Return(UploadResult(_build_public_url(call.key), call.key, fut.value.etag,
                             BytesLen(call.content), call.content_type, now))
    ELSE IF fut.error = RawFault("Exception")
    THEN Raise(fut.error)
    ELSE Raise(TosUploadError)

\* TosClient.upload_bytes_async from its await on: the result or the
\* classified error, from what the executor future holds
upload_bytes_result(call, fut, now) ==
    IF fut.ok
    THEN Return(UploadResult(_build_public_url(call.key), call.key, fut.value.etag,
                             BytesLen(call.content), call.content_type, now))
    ELSE Raise(TosUploadError)

\* a base64 upload that hands the decoded bytes on without sniffing them
upload_base64_async_unvalidated(ep, base64_data, format, prefix, unique_id, now) ==
    LET image_bytes == decode_base64_image_fast(base64_data)
    IN  IF ~image_bytes.ok
        THEN Coroutine(ep, "done", None, Raise(image_bytes.error), None)
        ELSE upload_bytes_async(ep, image_bytes.bytes, format, prefix, FALSE,
                                unique_id, now)

\* TosClient.upload_base64_async up to its await
upload_base64_async(ep, base64_data, format, prefix, unique_id, now) ==
    LET image_bytes == decode_base64_image_fast(base64_data)
    IN  IF ~image_bytes.ok
        THEN Coroutine(ep, "done", None, Raise(image_bytes.error), None)
        ELSE upload_bytes_async(ep, image_bytes.bytes, format, prefix, TRUE,
                                unique_id, now)

\* an executor that turns a unit away when every worker is taken
run_in_executor_reject_when_busy(queue, u, co) ==
    IF co.pc = "awaiting" /\ Cardinality(running) + Len(queue) < max_workers
    THEN Append(queue, u)
    ELSE queue

\* loop.run_in_executor(get_executor(), ...): the executor queue after
\* coroutine co of unit u has run up to its await
run_in_executor(queue, u, co) ==
    IF co.pc = "awaiting" THEN Append(queue, u) ELSE queue

\* _executor is None
NoPool == 0

\* self._client is None
NoClient == 0

\* the application serves requests: between its startup and its shutdown
serving == lifespan = "running"

\* the event-loop thread is not held inside shutdown_executor
loop_free == lifespan # "draining"

\* get_executor(): the pool it returns and the pools constructed so far
get_executor ==
    IF _executor = NoPool
    THEN [handle |-> Len(pools) + 1,
          pools  |-> Append(pools, [state |-> "live", units |-> {}])]
    ELSE [handle |-> _executor, pools |-> pools]

\* a client property that builds a client on every read
client_is_none_unchecked == TRUE

\* if self._client is None
client_is_none == _client = NoClient

\* TosClient.client read on the event-loop thread: the client it returns and
\* the number of clients constructed so far
client_property ==
    IF client_is_none
    THEN [client |-> clients_built + 1, built |-> clients_built + 1]
    ELSE [client |-> _client, built |-> clients_built]

\* the coroutine co of unit u reaches loop.run_in_executor(get_executor(), ...):
\* the pool is fetched or constructed, the unit is queued on it; for a
\* probe, self.client.head_bucket is read before the call
Submit(u, co) ==
    /\ work_queue' = run_in_executor(work_queue, u, co)
    /\ IF co.pc = "awaiting"
       THEN LET ex == get_executor
                cl == IF co.call.op = "head_bucket" THEN client_property
                      ELSE [client |-> _client, built |-> clients_built]
            IN  /\ _executor' = ex.handle
                /\ pools' = [ex.pools EXCEPT ![ex.handle].units = @ \cup {u}]
                /\ _client' = cl.client
                /\ clients_built' = cl.built
       ELSE UNCHANGED singletonVars

\* the next value of uuid.uuid4().hex[:12]: one is drawn per key generated
KeysGenerated ==
    Cardinality({u \in 1..Len(task) :
                    task[u].call # None /\ task[u].call.op = "put_object"})

unique_id == uuid4[(KeysGenerated % Len(uuid4)) + 1]

\* ---------------------------------------------------------- worker threads

\* a pool that starts a thread for every unit submitted
has_free_worker_unbounded == TRUE

\* ThreadPoolExecutor(max_workers=10): at most max_workers threads exist
has_free_worker == Cardinality(running) < max_workers

\* a worker thread takes the head of the queue and issues its backend call
worker_start(u) ==
    /\ work_queue # <<>>
    /\ u = Head(work_queue)
    /\ has_free_worker
    /\ work_queue' = Tail(work_queue)
    /\ running' = running \cup {u}
    /\ IF task[u].call.op = "put_object"
       THEN /\ IF client_is_none
               THEN /\ constructing' = constructing \cup {u}
                    /\ UNCHANGED put_calls
               ELSE /\ put_calls' = Append(put_calls, [unit |-> u, call |-> task[u].call])
                    /\ UNCHANGED constructing
            /\ UNCHANGED head_calls
       ELSE /\ head_calls' = head_calls + 1
            /\ UNCHANGED <<put_calls, constructing>>
    /\ UNCHANGED <<inbox, task, finish_order, envVars, batchVars, healthVars,
                   lifespan, singletonVars>>

\* TosClient.client on a worker thread that found no client: it constructs
\* one, assigns it, and _upload_sync issues put_object on it
client_construct(u) ==
    /\ u \in constructing
    /\ constructing' = constructing \ {u}
    /\ clients_built' = clients_built + 1
    /\ _client' = clients_built + 1
    /\ put_calls' = Append(put_calls, [unit |-> u, call |-> task[u].call])
    /\ UNCHANGED <<inbox, task, work_queue, running, head_calls, finish_order,
                   envVars, batchVars, healthVars, lifespan, _executor, pools>>

\* the etag the backend issues for the put_object call of unit u
ETagOf(u) == <<"etag", CHOOSE n \in 1..Len(put_calls) : put_calls[n].unit = u>>

\* a worker that submits the unit again when its backend call raised
worker_finish_retry(u, outcome) ==
    /\ u \in running
    /\ u \notin constructing
    /\ outcome \in backend
    /\ running' = running \ {u}
    /\ finish_order' = IF task[u].call.op = "put_object" /\ outcome = "ok"
                       THEN Append(finish_order, u) ELSE finish_order
    /\ work_queue' = IF outcome = "ok" THEN work_queue ELSE Append(work_queue, u)
    /\ task' = [task EXCEPT ![u].fut =
                   IF outcome # "ok" THEN None
                   ELSE IF task[u].call.op = "put_object"
                   THEN Return([etag |-> <<"etag", Len(put_calls)>>])
                   ELSE Return(None)]
    /\ UNCHANGED <<inbox, put_calls, head_calls, envVars, batchVars,
                   healthVars, lifeVars>>

\* a worker that hands back the etag of the store call issued last, whichever
\* unit issued it
worker_finish_last_etag(u, outcome) ==
    /\ u \in running
    /\ u \notin constructing
    /\ outcome \in backend
    /\ running' = running \ {u}
    /\ finish_order' = IF task[u].call.op = "put_object"
                       THEN Append(finish_order, u) ELSE finish_order
    /\ task' = [task EXCEPT ![u].fut =
                   IF outcome = "ok"
                   THEN IF task[u].call.op = "put_object"
                        THEN Return([etag |-> <<"etag", Len(put_calls)>>])
                        ELSE Return(None)
                   ELSE Raise(RawFault(outcome))]
    /\ UNCHANGED <<inbox, work_queue, put_calls, head_calls, envVars, batchVars,
                   healthVars, lifeVars>>

\* the backend call of unit u returns or raises; the worker thread sets the
\* executor future and is free again
worker_finish(u, outcome) ==
    /\ u \in running
    /\ u \notin constructing
    /\ outcome \in backend
    /\ running' = running \ {u}
    /\ finish_order' = IF task[u].call.op = "put_object"
                       THEN Append(finish_order, u) ELSE finish_order
    /\ task' = [task EXCEPT ![u].fut =
                   IF outcome = "ok"
                   THEN IF task[u].call.op = "put_object"
                        THEN Return([etag |-> ETagOf(u)])
                        ELSE Return(None)
                   ELSE Raise(RawFault(outcome))]
    /\ UNCHANGED <<inbox, work_queue, put_calls, head_calls, envVars, batchVars,
                   healthVars, lifeVars>>

\* ------------------------------------------------- routers/upload.py: batch

\* the bound rounded up to whole groups of four characters
max_base64_size_whole_groups == (((max_file_size_mb * 1024 * 1024) + 2) \div 3) * 4

max_base64_size == (max_file_size_mb * 1024 * 1024 * 4) \div 3

ApiResponse(success, code, data) ==
    [success |-> success, code |-> code, data |-> data]

\* the results in the order the backend calls completed
GatherResultsByCompletion(children, tasks, completed) ==
    [i \in 1..Len(children) |-> tasks[completed[i]].out.value]

\* the results gather hands to its awaiter: one per child, in argument order
GatherResults(children, tasks, completed) ==
    [i \in 1..Len(children) |-> tasks[children[i]].out.value]

\* the count check off by one
batch_too_large_off_by_one(reqs) == Len(reqs) > MAX_BATCH + 1

\* len(requests) > 10
batch_too_large(reqs) == Len(reqs) > MAX_BATCH

\* the size check stopping at the first request
any_oversized_first_only(reqs) ==
    reqs # <<>> /\ StrLen(reqs[1].image_base64) > max_base64_size

\* the loop over all requests that compares each encoded length with the bound
any_oversized(reqs) ==
    \E i \in 1..Len(reqs) : StrLen(reqs[i].image_base64) > max_base64_size

\* a response that reports success whatever gather raised
batch_response_swallow(state) ==
    IF state.ok
    THEN Return(ApiResponse(TRUE, ErrorCode.SUCCESS, state.value))
    ELSE Return(ApiResponse(TRUE, ErrorCode.SUCCESS, <<>>))

\* what upload_batch returns or raises once gather is settled
batch_response(state) ==
    IF state.ok
    THEN Return(ApiResponse(TRUE, ErrorCode.SUCCESS, state.value))
    ELSE Raise(state.error)

\* upload_batch from the request to its await on gather
upload_batch ==
    /\ serving
    /\ inbox # <<>>
    /\ Head(inbox).ep = "batch"
    /\ verify_api_key(Head(inbox).x_api_key).ok
    /\ batch_pc = "none"
    /\ inbox' = Tail(inbox)
    /\ LET reqs == Head(inbox).requests
           n    == Len(reqs)
       IN  /\ requests' = reqs
           /\ IF batch_too_large(reqs)
              THEN /\ batch_pc' = "done"
                   /\ batch_out' = Raise(InvalidFileFormatError)
                   /\ UNCHANGED <<task, outer>>
              ELSE IF any_oversized(reqs)
              THEN /\ batch_pc' = "done"
                   /\ batch_out' = Raise(FileSizeExceededError)
                   /\ UNCHANGED <<task, outer>>
              ELSE /\ batch_pc' = "gather"
                   /\ task' = task \o [i \in 1..n |->
                                  Coroutine("batch_item", "created", None, None, i)]
                   /\ outer' = [children  |-> [i \in 1..n |-> Len(task) + i],
                                nfinished |-> 0,
                                state     |-> IF n = 0 THEN Return(<<>>) ELSE None]
                   /\ UNCHANGED batch_out
    /\ UNCHANGED <<poolVars, envVars, healthVars, lifeVars>>

\* every task gather created has run its first step (the loop runs them in
\* the order they were created, ahead of any callback scheduled later)
AllStepped == \A u \in 1..Len(task) : task[u].pc # "created"

\* first step of the task of one batch item: upload_base64_async to its await
batch_item_step(u) ==
    /\ serving
    /\ u \in 1..Len(task)
    /\ task[u].pc = "created"
    /\ \A v \in 1..(u - 1) : task[v].pc # "created"
    /\ LET req == requests[task[u].arg]
           co  == upload_base64_async("batch_item", req.image_base64, req.format,
                                      req.prefix, unique_id, wall)
       IN  /\ task' = [task EXCEPT ![u] = [co EXCEPT !.arg = task[u].arg]]
           /\ Submit(u, co)
    /\ UNCHANGED <<inbox, running, put_calls, head_calls, finish_order, envVars,
                   batchVars, healthVars, lifespan, constructing>>

\* the task of one batch item resumes when its executor future is set
batch_item_resume(u) ==
    /\ loop_free
    /\ u \in 1..Len(task)
    /\ task[u].ep = "batch_item"
    /\ task[u].pc = "awaiting"
    /\ task[u].fut # None
    /\ AllStepped
    /\ task' = [task EXCEPT ![u].pc = "done",
                            ![u].out = upload_bytes_result(task[u].call, task[u].fut, wall)]
    /\ UNCHANGED <<inbox, poolVars, envVars, batchVars, healthVars, lifeVars>>

\* asyncio.gather's _done_callback for one finished child
_done_callback(u) ==
    /\ loop_free
    /\ u \in 1..Len(task)
    /\ task[u].ep = "batch_item"
    /\ task[u].pc = "done"
    /\ AllStepped
    /\ task' = [task EXCEPT ![u].pc = "collected"]
    /\ LET nfinished == outer.nfinished + 1
           tasks     == task'
       IN  outer' =
             IF outer.state # None
             THEN [outer EXCEPT !.nfinished = nfinished]
             ELSE IF ~task[u].out.ok
             THEN [outer EXCEPT !.nfinished = nfinished,
                                !.state = Raise(task[u].out.error)]
             ELSE IF nfinished = Len(outer.children)
             THEN [outer EXCEPT !.nfinished = nfinished,
                                !.state = Return(GatherResults(outer.children, tasks,
                                                               finish_order))]
             ELSE [outer EXCEPT !.nfinished = nfinished]
    /\ UNCHANGED <<inbox, poolVars, envVars, batch_pc, requests, batch_out, healthVars, lifeVars>>

\* upload_batch from its await on: the response, or the child's error
upload_batch_resume ==
    /\ loop_free
    /\ batch_pc = "gather"
    /\ outer.state # None
    /\ AllStepped
    /\ batch_pc' = "done"
    /\ batch_out' = batch_response(outer.state)
    /\ UNCHANGED <<inbox, task, poolVars, envVars, requests, outer, healthVars, lifeVars>>

\* ------------------------------------- routers/upload.py: single endpoints

ALLOWED_CONTENT_TYPES ==
    [ct \in {"image/jpeg", "image/jpg", "image/png", "image/webp"} |->
        CASE ct = "image/jpeg" -> "jpeg"
          [] ct = "image/jpg"  -> "jpeg"
          [] ct = "image/png"  -> "png"
          [] ct = "image/webp" -> "webp"]

max_size_bytes == max_file_size_mb * 1024 * 1024

\* a request is handed to its handler: the coroutine co is unit Len(task) + 1
Start(co) ==
    /\ serving
    /\ inbox' = Tail(inbox)
    /\ task' = Append(task, co)
    /\ Submit(Len(task) + 1, co)

\* a direct call of the bridge, TosClient.upload_bytes_async, to its await
bridge_call ==
    /\ inbox # <<>>
    /\ Head(inbox).ep = "bridge"
    /\ LET r  == Head(inbox)
           co == upload_bytes_async("bridge", r.data, r.format, r.prefix, r.validate,
                                    unique_id, wall)
       IN  Start([co EXCEPT !.arg = r])
    /\ UNCHANGED <<running, put_calls, head_calls, finish_order, envVars, batchVars,
                   healthVars, lifespan, constructing>>

\* an endpoint that decodes first and compares the length afterwards
upload_base64_decode_first ==
    /\ inbox # <<>>
    /\ Head(inbox).ep = "base64"
    /\ verify_api_key(Head(inbox).x_api_key).ok
    /\ LET r  == Head(inbox)
           co == IF ~decode_base64_image_fast(r.request.image_base64).ok
                 THEN Coroutine("base64", "done", None, Raise(Base64DecodeError), None)
                 ELSE IF StrLen(r.request.image_base64) > max_base64_size
                 THEN Coroutine("base64", "done", None, Raise(FileSizeExceededError), None)
                 ELSE upload_base64_async("base64", r.request.image_base64,
                                          r.request.format, r.request.prefix,
                                          unique_id, wall)
       IN  Start([co EXCEPT !.arg = r])
    /\ UNCHANGED <<running, put_calls, head_calls, finish_order, envVars, batchVars,
                   healthVars, lifespan, constructing>>

\* upload_base64 from the request to its await
upload_base64 ==
    /\ inbox # <<>>
    /\ Head(inbox).ep = "base64"
    /\ verify_api_key(Head(inbox).x_api_key).ok
    /\ LET r  == Head(inbox)
           co == IF StrLen(r.request.image_base64) > max_base64_size
                 THEN Coroutine("base64", "done", None, Raise(FileSizeExceededError), None)
                 ELSE upload_base64_async("base64", r.request.image_base64,
                                          r.request.format, r.request.prefix,
                                          unique_id, wall)
       IN  Start([co EXCEPT !.arg = r])
    /\ UNCHANGED <<running, put_calls, head_calls, finish_order, envVars, batchVars,
                   healthVars, lifespan, constructing>>

\* an endpoint that reads the file and compares its size before it looks at
\* the declared content type
upload_image_size_first ==
    /\ inbox # <<>>
    /\ Head(inbox).ep = "image"
    /\ verify_api_key(Head(inbox).x_api_key).ok
    /\ LET r            == Head(inbox)
           content_type == IF r.content_type = "" THEN "application/octet-stream"
                           ELSE r.content_type
           co == IF BytesLen(r.file) > max_size_bytes
                 THEN Coroutine("image", "done", None, Raise(FileSizeExceededError), None)
                 ELSE IF content_type \notin DOMAIN ALLOWED_CONTENT_TYPES
                 THEN Coroutine("image", "done", None, Raise(InvalidFileFormatError), None)
                 ELSE upload_bytes_async("image", r.file,
                                         ALLOWED_CONTENT_TYPES[content_type],
                                         r.prefix, TRUE, unique_id, wall)
       IN  Start([co EXCEPT !.arg = r])
    /\ UNCHANGED <<running, put_calls, head_calls, finish_order, envVars, batchVars,
                   healthVars, lifespan, constructing>>

\* upload_image from the request to its await
upload_image ==
    /\ inbox # <<>>
    /\ Head(inbox).ep = "image"
    /\ verify_api_key(Head(inbox).x_api_key).ok
    /\ LET r            == Head(inbox)
           content_type == IF r.content_type = "" THEN "application/octet-stream"
                           ELSE r.content_type
           co == IF content_type \notin DOMAIN ALLOWED_CONTENT_TYPES
                 THEN Coroutine("image", "done", None, Raise(InvalidFileFormatError), None)
                 ELSE IF BytesLen(r.file) > max_size_bytes
                 THEN Coroutine("image", "done", None, Raise(FileSizeExceededError), None)
                 ELSE upload_bytes_async("image", r.file,
                                         ALLOWED_CONTENT_TYPES[content_type],
                                         r.prefix, TRUE, unique_id, wall)
       IN  Start([co EXCEPT !.arg = r])
    /\ UNCHANGED <<running, put_calls, head_calls, finish_order, envVars, batchVars,
                   healthVars, lifespan, constructing>>

\* a bridge that does not wait for its executor future
upload_resume_unawaited(u) ==
    /\ loop_free
    /\ u \in 1..Len(task)
    /\ task[u].ep \in {"bridge", "base64", "image"}
    /\ task[u].pc = "awaiting"
    /\ task' = [task EXCEPT
                    ![u].pc = "done",
                    ![u].out = IF task[u].fut # None
                               THEN upload_bytes_result(task[u].call, task[u].fut, wall)
                               ELSE Raise(TosUploadError)]
    /\ UNCHANGED <<inbox, poolVars, envVars, batchVars, healthVars, lifeVars>>

\* a single upload resumes when its executor future is set: the bridge returns
\* the UploadResult or raises, an endpoint wraps the result in an ApiResponse
upload_resume(u) ==
    /\ loop_free
    /\ u \in 1..Len(task)
    /\ task[u].ep \in {"bridge", "base64", "image"}
    /\ task[u].pc = "awaiting"
    /\ task[u].fut # None
    /\ LET res == upload_bytes_result(task[u].call, task[u].fut, wall)
       IN  task' = [task EXCEPT
                       ![u].pc = "done",
                       ![u].out = IF res.ok /\ task[u].ep # "bridge"
                                  THEN Return(ApiResponse(TRUE, ErrorCode.SUCCESS, res.value))
                                  ELSE res]
    /\ UNCHANGED <<inbox, poolVars, envVars, batchVars, healthVars, lifeVars>>

\* ------------------------------------------------------- routers/health.py

\* a report whose status follows the backend
HealthResponse_degraded(tos_ok) ==
    [status |-> IF tos_ok THEN "healthy" ELSE "unhealthy",
     tos_connection |-> IF tos_ok THEN "ok" ELSE "error"]

HealthResponse(tos_ok) ==
    [status |-> "healthy", tos_connection |-> IF tos_ok THEN "ok" ELSE "error"]

\* a freshness test with the comparison turned round
cache_fresh_inverted(cache_entry, current_time) ==
    cache_entry # None /\ (current_time - cache_entry.time) > HEALTH_CACHE_TTL

\* a freshness test that takes an entry of exactly the TTL for fresh
cache_fresh_inclusive(cache_entry, current_time) ==
    cache_entry # None /\ (current_time - cache_entry.time) <= HEALTH_CACHE_TTL

\* cache_entry and (current_time - cache_entry[1]) < HEALTH_CACHE_TTL
cache_fresh(cache_entry, current_time) ==
    cache_entry # None /\ (current_time - cache_entry.time) < HEALTH_CACHE_TTL

\* the health checks that wait for their probe
ChecksInFlight ==
    {u \in 1..Len(task) : task[u].ep = "health" /\ task[u].pc = "awaiting"}

\* health_check from the request to its await, or to its end on a fresh entry
health_check ==
    /\ inbox # <<>>
    /\ Head(inbox).ep = "health"
    /\ LET current_time == clock
           cache_entry  == _health_cache
           locals       == [current_time |-> current_time,
                            cache_entry  |-> cache_entry,
                            in_flight    |-> Cardinality(ChecksInFlight)]
       IN  IF cache_fresh(cache_entry, current_time)
           THEN Start(Coroutine("health", "done", None,
                                Return(HealthResponse(cache_entry.tos_ok)), locals))
           ELSE Start(Coroutine("health", "awaiting", HeadBucket, None, locals))
    /\ UNCHANGED <<running, put_calls, head_calls, finish_order, envVars, batchVars,
                   healthVars, lifespan, constructing>>

\* a reachability check that reports an unexpected fault as reachable
check_connection_result_optimistic(fut) ==
    IF fut.ok THEN TRUE ELSE fut.error = RawFault("Exception")

\* TosClient.check_connection_async from its await on
check_connection_result(fut) == IF fut.ok THEN TRUE ELSE FALSE

\* health_check from its await on: the entry is stored, the report returned
health_check_resume(u) ==
    /\ loop_free
    /\ u \in 1..Len(task)
    /\ task[u].ep = "health"
    /\ task[u].pc = "awaiting"
    /\ task[u].fut # None
    /\ LET tos_ok == check_connection_result(task[u].fut)
       IN  /\ _health_cache' = [tos_ok |-> tos_ok, time |-> task[u].arg.current_time]
           /\ task' = [task EXCEPT ![u].pc = "done",
                                   ![u].out = Return(HealthResponse(tos_ok))]
    /\ UNCHANGED <<inbox, poolVars, envVars, batchVars, clock, lifeVars>>

\* time passes on the loop's clock
Tick(d) ==
    /\ clock + d <= MaxClock
    /\ clock' = clock + d
    /\ UNCHANGED <<inbox, task, poolVars, envVars, batchVars, _health_cache, lifeVars>>

\* readiness_probe from the request to its await
readiness_probe ==
    /\ inbox # <<>>
    /\ Head(inbox).ep = "ready"
    /\ Start(Coroutine("ready", "awaiting", HeadBucket, None, Head(inbox)))
    /\ UNCHANGED <<running, put_calls, head_calls, finish_order, envVars, batchVars,
                   healthVars, lifespan, constructing>>

\* readiness_probe from its await on
readiness_probe_resume(u) ==
    /\ loop_free
    /\ u \in 1..Len(task)
    /\ task[u].ep = "ready"
    /\ task[u].pc = "awaiting"
    /\ task[u].fut # None
    /\ task' = [task EXCEPT
                   ![u].pc = "done",
                   ![u].out = IF check_connection_result(task[u].fut)
                              THEN Return([status |-> "ready"])
                              ELSE Return([status |-> "not_ready",
                                           reason |-> "TOS connection failed"])]
    /\ UNCHANGED <<inbox, poolVars, envVars, batchVars, healthVars, lifeVars>>

\* liveness_probe: answers without touching the backend
liveness_probe ==
    /\ inbox # <<>>
    /\ Head(inbox).ep = "live"
    /\ Start(Coroutine("live", "done", None, Return([status |-> "alive"]), None))
    /\ UNCHANGED <<running, put_calls, head_calls, finish_order, envVars, batchVars,
                   healthVars, lifespan, constructing>>


\* ------------------------------------------------ main.py: the lifespan

\* a shutdown that does not wait for the units already submitted
shutdown_wait_done_no_wait == TRUE

\* _executor.shutdown(wait=True) returns: every unit queued or running on the
\* pool has finished
shutdown_wait_done == work_queue = <<>> /\ running = {}

\* lifespan after its yield calls shutdown_executor(): the pool, if there is
\* one, is told to shut down and the event-loop thread waits in the call
shutdown_executor_begin ==
    /\ lifespan = "running"
    /\ lifespan' = "draining"
    /\ pools' = IF _executor = NoPool THEN pools
                ELSE [pools EXCEPT ![_executor].state = "shutdown"]
    /\ UNCHANGED <<inbox, task, poolVars, envVars, batchVars, healthVars,
                   _executor, _client, clients_built, constructing>>

\* shutdown_executor returns: the wait is over, _executor = None
shutdown_executor_end ==
    /\ lifespan = "draining"
    /\ shutdown_wait_done
    /\ lifespan' = "stopped"
    /\ pools' = IF _executor = NoPool THEN pools
                ELSE [pools EXCEPT ![_executor].state = "released"]
    /\ _executor' = NoPool
    /\ UNCHANGED <<inbox, task, poolVars, envVars, batchVars, healthVars,
                   _client, clients_built, constructing>>

\* the application is started again in the same process: lifespan up to its
\* yield
lifespan_startup ==
    /\ lifespan = "stopped"
    /\ lifespan' = "running"
    /\ UNCHANGED <<inbox, task, poolVars, envVars, batchVars, healthVars,
                   singletonVars, constructing>>

\* ------------------------------------------------------------ batch inputs

Base64UploadRequest(image_base64, format, prefix) ==
    [image_base64 |-> image_base64, format |-> format, prefix |-> prefix,
     quality |-> 90]

\* "/9j/4A==": FF D8 FF E0
JpegBase64 == Str(<<"/", "9", "j", "/", "4", "A", "=", "=">>, 0)

\* "iVBORw==" behind a data-URL marker: 89 50 4E 47
PngDataUrl ==
    Str(<<"d", "a", "t", "a", ":", "i", "m", "a", "g", "e", "/", "p", "n", "g",
          ";", "b", "a", "s", "e", "6", "4", ",",
          "i", "V", "B", "O", "R", "w", "=", "=">>, 0)

\* "dGVzdA==": the text "test"
TextBase64 == Str(<<"d", "G", "V", "z", "d", "A", "=", "=">>, 0)

\* "/9j/4A=": wrong padding
BadBase64 == Str(<<"/", "9", "j", "/", "4", "A", "=">>, 0)

\* a JPEG payload of max_base64_size + 3 characters
OversizeBase64 == Str(<<"/", "9", "j", "/", "4", "A", "A", "A">>, max_base64_size - 5)

SampleRequests ==
    { Base64UploadRequest(JpegBase64, "jpeg", "generated/"),
      Base64UploadRequest(PngDataUrl, "png", "avatars/"),
      Base64UploadRequest(TextBase64, "jpeg", "generated/"),
      Base64UploadRequest(BadBase64, "jpeg", "generated/"),
      Base64UploadRequest(OversizeBase64, "jpeg", "generated/") }

\* a batch of n JPEG uploads whose item k (when k is in 1..n) is oversized
LongBatch(n, k) ==
    [i \in 1..n |-> IF i = k
                    THEN Base64UploadRequest(OversizeBase64, "jpeg", "generated/")
                    ELSE Base64UploadRequest(JpegBase64, "jpeg", "generated/")]

\* the batches: every list of up to MaxLen sample requests; longer lists up to
\* the batch limit holding one oversized item; lists beyond the limit
Batches ==
    UNION {[1..n -> SampleRequests] : n \in 0..MaxLen}
      \cup UNION {{LongBatch(n, k) : k \in {1, n}} :
                     n \in (MaxLen + 1)..MAX_BATCH}
      \cup UNION {{LongBatch(n, k) : k \in {0, n}} :
                     n \in (MAX_BATCH + 1)..(MAX_BATCH + MaxOver)}

\* the process after start-up: nothing submitted, nothing cached
Boot ==
    /\ task = <<>>
    /\ work_queue = <<>>
    /\ running = {}
    /\ put_calls = <<>>
    /\ head_calls = 0
    /\ finish_order = <<>>
    /\ wall = 0
    /\ batch_pc = "none"
    /\ requests = <<>>
    /\ outer = None
    /\ batch_out = None
    /\ clock = 0
    /\ _health_cache = None
    /\ lifespan = "running"
    /\ _executor = NoPool
    /\ pools = <<>>
    /\ _client = NoClient
    /\ clients_built = 0
    /\ constructing = {}

Init ==
    /\ Boot
    /\ inbox \in {<<[ep |-> "batch", requests |-> b, x_api_key |-> Header(api_key)]>> :
                     b \in Batches}
    /\ backend = {"ok", "TosServerError"}
    /\ uuid4 = [i \in 1..(MaxLen + 1) |-> i]

Next ==
    \/ upload_batch
    \/ \E u \in 1..Len(task) : batch_item_step(u)
    \/ \E u \in 1..Len(task) : worker_start(u)
    \/ \E u \in 1..Len(task) : client_construct(u)
    \/ \E u \in 1..Len(task), outcome \in {"ok"} \cup Faults : worker_finish(u, outcome)
    \/ \E u \in 1..Len(task) : batch_item_resume(u)
    \/ \E u \in 1..Len(task) : _done_callback(u)
    \/ upload_batch_resume

Spec == Init /\ [][Next]_vars

\* ------------------------------------------------------- batch properties

\* some request's encoded length exceeds the bound
HasOversizedItem ==
    \E i \in 1..Len(requests) : StrLen(requests[i].image_base64) > max_base64_size

\* the unit of work of batch item i
UnitOf(i) == outer.children[i]

\* the batch passed the count and size checks and reached gather
BatchAdmitted == batch_pc # "none" /\ outer # None

\* item i of an admitted batch failed: its decode, its sniffing or its store call
ItemFailed(i) ==
    LET u == UnitOf(i)
    IN  \/ task[u].out # None /\ ~task[u].out.ok
        \/ task[u].fut # None /\ ~task[u].fut.ok

\* nothing was done for any item: no coroutine was created (so nothing was
\* decoded or handed to the bridge) and the pool and the backend saw nothing
NothingAttempted ==
    /\ task = <<>>
    /\ work_queue = <<>>
    /\ running = {}
    /\ put_calls = <<>>
    /\ finish_order = <<>>

\* C1: an admitted batch of which some item failed (decode, sniffing or
\* backend) ends with a classified error and hands no result to the caller,
\* also when other items of it were uploaded
C1_BatchAllOrNothing ==
    (/\ batch_pc = "done"
     /\ BatchAdmitted
     /\ \E i \in 1..Len(requests) : ItemFailed(i))
    => /\ ~batch_out.ok
       /\ batch_out.error \in TosUploadException
       /\ batch_out = Raise(batch_out.error)

\* a batch failed on a backend fault of one item while another item's upload
\* had succeeded
C1_Witness ==
    /\ batch_pc = "done"
    /\ BatchAdmitted
    /\ ~batch_out.ok
    /\ \E i, j \in 1..Len(requests) :
          /\ task[UnitOf(i)].fut # None /\ ~task[UnitOf(i)].fut.ok
          /\ task[UnitOf(j)].out # None /\ task[UnitOf(j)].out.ok

\* C2: a batch whose uploads all succeeded returns one result per request,
\* the i-th being the one of the i-th request (its prefix, its decoded size,
\* the key and the etag of its own store call), in whatever order the store
\* calls completed
C2_BatchResultsInOrder ==
    (batch_pc = "done" /\ batch_out.ok)
    => /\ Len(batch_out.value.data) = Len(requests)
       /\ \A i \in 1..Len(requests) :
             LET r == batch_out.value.data[i]
                 u == UnitOf(i)
             IN  /\ r.object_key = task[u].call.key
                 /\ r.object_key[1] = requests[i].prefix
                 /\ r.etag = ETagOf(u)
                 /\ r.content_type = MIME_TYPES[requests[i].format]
                 /\ r.size_bytes =
                      BytesLen(decode_base64_image_fast(requests[i].image_base64).bytes)

\* a batch of several items succeeded whose store calls completed in another
\* order than the requests'
C2_Witness ==
    /\ batch_pc = "done"
    /\ batch_out.ok
    /\ Len(requests) >= 2
    /\ finish_order # [i \in 1..Len(requests) |-> UnitOf(i)]

\* C3: a batch of more than 10 items is rejected with InvalidFileFormat and
\* nothing is attempted for any of its items
C3_OversizedBatchRejected ==
    (batch_pc # "none" /\ Len(requests) > MAX_BATCH)
    => /\ batch_pc = "done"
       /\ batch_out = Raise(InvalidFileFormatError)
       /\ outer = None
       /\ NothingAttempted

\* a batch of 11 valid items was rejected
C3_Witness ==
    /\ batch_pc = "done"
    /\ Len(requests) = MAX_BATCH + 1
    /\ ~HasOversizedItem
    /\ batch_out = Raise(InvalidFileFormatError)

\* C4 as stated: a batch holding an oversized item fails with FileSizeExceeded
\* and nothing is attempted for any of its items
C4_AsStated ==
    (batch_pc # "none" /\ HasOversizedItem)
    => /\ batch_out = Raise(FileSizeExceededError)
       /\ NothingAttempted

\* C4, amended: a batch of at most 10 items holding an oversized item fails
\* with FileSizeExceeded and nothing is attempted for any of its items, those
\* before the oversized one included
C4_SizesCheckedFirst ==
    (batch_pc # "none" /\ Len(requests) <= MAX_BATCH /\ HasOversizedItem)
    => /\ batch_pc = "done"
       /\ batch_out = Raise(FileSizeExceededError)
       /\ outer = None
       /\ NothingAttempted

\* a batch was rejected for its last item's size, valid items before it
C4_Witness ==
    /\ batch_pc = "done"
    /\ batch_out = Raise(FileSizeExceededError)
    /\ Len(requests) >= 2
    /\ StrLen(requests[Len(requests)].image_base64) > max_base64_size
    /\ StrLen(requests[1].image_base64) <= max_base64_size
    /\ decode_base64_image_fast(requests[1].image_base64).ok

\* ---------------------------------------------------------- single uploads

JpegBytes == Bytes(<<255, 216, 255, 224>>, 0)

PngBytes == Bytes(<<137, 80, 78, 71>>, 0)

WebpBytes == Bytes(<<82, 73, 70, 70, 36, 0, 0, 0, 87, 69, 66, 80>>, 0)

\* a RIFF container that is not WEBP
WaveBytes == Bytes(<<82, 73, 70, 70, 36, 0, 0, 0, 87, 65, 86, 69>>, 0)

\* three bytes of a JPEG
ShortBytes == Bytes(<<255, 216, 255>>, 0)

TextBytes == Bytes(<<116, 101, 115, 116>>, 0)

\* a JPEG one byte over max_size_bytes
OversizeBytes == Bytes(<<255, 216, 255, 224>>, max_size_bytes - 3)

SampleData == {JpegBytes, PngBytes, WebpBytes, WaveBytes, ShortBytes, TextBytes}

BridgeCalls ==
    [ep : {"bridge"}, data : SampleData, format : ImageFormat,
     prefix : {"generated/", ""}, validate : BOOLEAN]

ImageRequests ==
    [ep : {"image"}, file : SampleData \cup {OversizeBytes},
     content_type : {"image/jpeg", "image/jpg", "image/png", "image/webp",
                     "text/plain", ""},
     prefix : {"generated/"}, x_api_key : {Header(api_key)}]

\* max_base64_size + 1 characters, the first outside the alphabet
OversizeBadBase64 == Str(<<"!">>, max_base64_size)

\* exactly max_base64_size characters
AtBoundBase64 == Str(<<"/", "9", "j", "/", "4", "A", "A", "A">>, max_base64_size - 8)

\* "/9j/4AAA=": two complete groups followed by a pad
OverpaddedBase64 == Str(<<"/", "9", "j", "/", "4", "A", "A", "A", "=">>, 0)

\* "/9j/4B==": a last group whose unused bits are not zero
LooseBitsBase64 == Str(<<"/", "9", "j", "/", "4", "B", "=", "=">>, 0)

EdgeRequests ==
    { Base64UploadRequest(OversizeBadBase64, "jpeg", "generated/"),
      Base64UploadRequest(AtBoundBase64, "jpeg", "generated/"),
      Base64UploadRequest(OverpaddedBase64, "jpeg", "generated/"),
      Base64UploadRequest(LooseBitsBase64, "jpeg", "generated/") }

Base64Requests ==
    [ep : {"base64"}, request : SampleRequests \cup EdgeRequests,
     x_api_key : {Header(api_key)}]

InitUpload ==
    /\ Boot
    /\ inbox \in {<<r>> : r \in BridgeCalls \cup ImageRequests \cup Base64Requests}
    /\ backend = {"ok"} \cup Faults
    /\ uuid4 \in {<<k>> : k \in 1..MaxUid}

NextUpload ==
    \/ bridge_call
    \/ upload_image
    \/ upload_base64
    \/ \E u \in 1..Len(task) : worker_start(u)
    \/ \E u \in 1..Len(task) : client_construct(u)
    \/ \E u \in 1..Len(task), outcome \in {"ok"} \cup Faults : worker_finish(u, outcome)
    \/ \E u \in 1..Len(task) : upload_resume(u)

SpecUpload == InitUpload /\ [][NextUpload]_vars

\* the put_object calls issued for unit u
PutCallsOf(u) == {n \in 1..Len(put_calls) : put_calls[n].unit = u}

\* validation was requested for the upload of unit u
ValidationRequested(u) ==
    IF task[u].ep = "bridge" THEN task[u].arg.validate ELSE TRUE

\* all six fields of the UploadResult r are those of the store call of unit u
CompleteResult(r, u) ==
    /\ DOMAIN r = {"public_url", "object_key", "etag", "size_bytes", "content_type",
                   "upload_time"}
    /\ r.object_key = task[u].call.key
    /\ r.public_url = _build_public_url(task[u].call.key)
    /\ r.etag = ETagOf(u)
    /\ r.size_bytes = BytesLen(task[u].call.content)
    /\ r.content_type = task[u].call.content_type
    /\ r.upload_time = wall

\* C5: a call of the bridge has no outcome before it ends, and ends in one of
\* three ways: a complete UploadResult of its one store call; InvalidFileFormat,
\* when validation was asked and the sniffer found no format, with no key
\* generated and no store call issued; UploadFailed, when its store call raised
\* a fault.  No other error, and no raw backend fault, leaves it
C5_BridgeOutcome ==
    \A u \in 1..Len(task) :
       task[u].ep = "bridge"
       => IF task[u].pc # "done"
          THEN task[u].out = None
          ELSE \/ /\ task[u].out.ok
                  /\ task[u].fut # None /\ task[u].fut.ok
                  /\ CompleteResult(task[u].out.value, u)
               \/ /\ task[u].out = Raise(InvalidFileFormatError)
                  /\ task[u].arg.validate
                  /\ _validate_image_bytes_fast(task[u].arg.data) = NoFormat
                  /\ task[u].call = None
                  /\ PutCallsOf(u) = {}
               \/ /\ task[u].out = Raise(TosUploadError)
                  /\ Cardinality(PutCallsOf(u)) = 1
                  /\ task[u].fut # None /\ ~task[u].fut.ok
                  /\ task[u].fut.error \in {RawFault(f) : f \in Faults}

\* a bridge call ended with UploadFailed after an unexpected fault of its store call
C5_Witness ==
    \E u \in 1..Len(task) :
       /\ task[u].ep = "bridge"
       /\ task[u].pc = "done"
       /\ task[u].out = Raise(TosUploadError)
       /\ task[u].fut = Raise(RawFault("Exception"))

\* C6: when validation is requested, every object is stored under the format
\* sniffed from its bytes: its content type and its key's extension are those
\* of the sniffed format, whatever format the caller declared
C6_SniffedFormatWins ==
    \A n \in 1..Len(put_calls) :
       LET u        == put_calls[n].unit
           call     == put_calls[n].call
           detected == _validate_image_bytes_fast(call.content)
       IN  (ValidationRequested(u) /\ detected # NoFormat)
           => /\ call.content_type = MIME_TYPES[detected]
              /\ call.key[5] = EXTENSIONS[detected]

\* ------------------------------------------------------------ health checks

\* the steps by which the loop's clock advances: half the TTL
TickSteps == {HEALTH_CACHE_TTL \div 2}

InitHealth ==
    /\ Boot
    /\ inbox = [i \in 1..MaxChecks |-> [ep |-> "health"]]
    /\ backend = {"ok"} \cup Faults
    /\ uuid4 = <<1>>

NextHealth ==
    \/ health_check
    \/ \E u \in 1..Len(task) : worker_start(u)
    \/ \E u \in 1..Len(task), outcome \in {"ok"} \cup Faults : worker_finish(u, outcome)
    \/ \E u \in 1..Len(task) : health_check_resume(u)
    \/ \E d \in TickSteps : Tick(d)

SpecHealth == InitHealth /\ [][NextHealth]_vars

HealthChecks == {u \in 1..Len(task) : task[u].ep = "health"}

\* the check issued a backend probe
Probed(u) == task[u].call # None

\* the instant the check was issued at
IssuedAt(u) == task[u].arg.current_time

\* two checks issued less than one TTL apart issued at most one probe
OneProbePerWindow ==
    \A u, v \in HealthChecks :
       (u < v /\ IssuedAt(v) - IssuedAt(u) < HEALTH_CACHE_TTL)
       => ~(Probed(u) /\ Probed(v))

\* a check that found no entry, or one at least a TTL old, issued a probe
StaleEntryProbes ==
    \A u \in HealthChecks :
       LET seen == task[u].arg.cache_entry
       IN  (seen = None \/ IssuedAt(u) - seen.time >= HEALTH_CACHE_TTL) => Probed(u)

\* no check was issued while another was waiting for its probe
NoOverlap == \A u \in HealthChecks : task[u].arg.in_flight = 0

\* C9 as stated: any two health checks issued within one TTL window issue at
\* most one probe between them, and a check issued once the entry's TTL has
\* elapsed issues a new probe
C9_AsStated == OneProbePerWindow /\ StaleEntryProbes

\* C9, amended: when no health check is issued while another is in flight, any
\* two checks issued within one TTL window issue at most one probe between
\* them; and in every case a check that finds no entry or one whose TTL has
\* elapsed issues a new probe
C9_HealthCacheTTL == (NoOverlap => OneProbePerWindow) /\ StaleEntryProbes

\* two checks followed one another within one TTL window, the first probed and
\* the second was answered from the cache; a third, a TTL later, probed again
C9_Witness ==
    /\ NoOverlap
    /\ Len(task) = 3
    /\ \A u \in 1..3 : task[u].ep = "health" /\ task[u].pc = "done"
    /\ Probed(1) /\ ~Probed(2) /\ Probed(3)
    /\ IssuedAt(2) - IssuedAt(1) \in 1..(HEALTH_CACHE_TTL - 1)
    /\ IssuedAt(3) - IssuedAt(1) = HEALTH_CACHE_TTL

\* C10: a health check whose probe raised a fault stores (false, the time it
\* read) in the cache and returns its report with tos_connection "error"; no
\* health check ever ends by raising
C10_HealthNeverFails ==
    [][\A u \in 1..Len(task) :
          /\ (task'[u].ep = "health" /\ task'[u].out # None) => task'[u].out.ok
          /\ (/\ task[u].ep = "health"
              /\ task[u].pc = "awaiting"
              /\ task'[u].pc = "done"
              /\ ~task[u].fut.ok)
             => /\ _health_cache' = [tos_ok |-> FALSE, time |-> task[u].arg.current_time]
                /\ task'[u].out = Return(HealthResponse(FALSE))]_vars

\* a health check ended normally after its probe raised a server fault, and
\* the cache holds false
C10_Witness ==
    \E u \in 1..Len(task) :
       /\ task[u].ep = "health"
       /\ task[u].pc = "done"
       /\ task[u].fut = Raise(RawFault("TosServerError"))
       /\ task[u].out = Return(HealthResponse(FALSE))
       /\ _health_cache = [tos_ok |-> FALSE, time |-> IssuedAt(u)]

\* ----------------------------------------------------- the pool under load

JpegUpload ==
    [ep |-> "image", file |-> JpegBytes, content_type |-> "image/jpeg",
     prefix |-> "generated/", x_api_key |-> Header(api_key)]

\* n requests: readiness probes, the second and the last request an upload
Workload(n) ==
    [i \in 1..n |-> IF i \in {2, n} THEN JpegUpload ELSE [ep |-> "ready"]]

InitPool ==
    /\ Boot
    /\ inbox = Workload(max_workers + MaxExtra)
    /\ backend = {"ok"}
    /\ uuid4 = <<1>>

NextPool ==
    \/ upload_image
    \/ readiness_probe
    \/ \E u \in 1..Len(task) : worker_start(u)
    \/ \E u \in 1..Len(task), outcome \in {"ok"} \cup Faults : worker_finish(u, outcome)
    \/ \E u \in 1..Len(task) : upload_resume(u)
    \/ \E u \in 1..Len(task) : readiness_probe_resume(u)

SpecPool == InitPool /\ [][NextPool]_vars

\* C7: at no moment do more than 10 backend calls (store calls and
\* reachability probes together) execute
C7_AtMostTenCalls == Cardinality(running) <= max_workers

\* ten backend calls execute, store calls and probes among them, while a
\* further unit waits in the queue
C7_Witness ==
    /\ Cardinality(running) = max_workers
    /\ work_queue # <<>>
    /\ \E u, v \in running :
          task[u].call.op = "put_object" /\ task[v].call.op = "head_bucket"

\* the units of work of one run
PoolUnits == 1..(max_workers + MaxExtra)

\* every backend call terminates, worker threads are scheduled, and the
\* event loop runs every callback that is ready
PoolFairness ==
    /\ WF_vars(\E u \in PoolUnits : worker_start(u))
    /\ WF_vars(\E u \in PoolUnits : worker_finish(u, "ok"))
    /\ WF_vars(\E u \in PoolUnits : upload_resume(u))
    /\ WF_vars(\E u \in PoolUnits : readiness_probe_resume(u))

FairSpecPool == SpecPool /\ PoolFairness

\* unit u is an upload handed to the pool
Dispatched(u) ==
    /\ u <= Len(task)
    /\ task[u].call # None
    /\ task[u].call.op = "put_object"

\* the caller of unit u holds an upload result or a classified error
Settled(u) ==
    /\ Dispatched(u)
    /\ task[u].pc = "done"
    /\ \/ task[u].out.ok /\ task[u].out.value.success
       \/ ~task[u].out.ok /\ task[u].out.error \in TosUploadException

\* the pool holds unit u: it waits in the queue, a worker runs it, or its
\* executor future is set
InPool(u) ==
    \/ \E n \in 1..Len(work_queue) : work_queue[n] = u
    \/ u \in running
    \/ task[u].fut # None

TextUpload ==
    [ep |-> "image", file |-> TextBytes, content_type |-> "image/png",
     prefix |-> "generated/", x_api_key |-> Header(api_key)]

LoopRequests ==
    {JpegUpload, TextUpload, [ep |-> "health"], [ep |-> "ready"], [ep |-> "live"]}

InitLoop ==
    /\ Boot
    /\ inbox \in [1..MaxReqs -> LoopRequests]
    /\ backend = {"ok", "TosServerError"}
    /\ uuid4 = <<1>>

NextLoop ==
    \/ upload_image
    \/ health_check
    \/ readiness_probe
    \/ liveness_probe
    \/ \E u \in 1..Len(task) : worker_start(u)
    \/ \E u \in 1..Len(task) : client_construct(u)
    \/ \E u \in 1..Len(task), outcome \in {"ok"} \cup Faults : worker_finish(u, outcome)
    \/ \E u \in 1..Len(task) : upload_resume(u)
    \/ \E u \in 1..Len(task) : health_check_resume(u)
    \/ \E u \in 1..Len(task) : readiness_probe_resume(u)

SpecLoop == InitLoop /\ [][NextLoop]_vars

\* unit u is suspended at its dispatch: its backend call has not completed
Suspended(u) == task[u].pc = "awaiting" /\ task[u].fut = None

\* the step issues a backend call
CallIssued == put_calls' # put_calls \/ head_calls' # head_calls

\* the step is one of a worker thread: a unit enters or stays among the units
\* the pool executes, and no coroutine and no pending request is touched
WorkerStep ==
    /\ task' = task
    /\ inbox' = inbox
    /\ \/ \E u \in running' \ running : task[u].call.op = "head_bucket"
       \/ put_calls' # put_calls /\ put_calls'[Len(put_calls')].unit \in running'

\* some handler of a pending request can take its next step
HandlerReady ==
    ENABLED (upload_image \/ health_check \/ readiness_probe \/ liveness_probe)

\* C11: a backend call is issued by a worker thread only, never by a step of
\* the scheduler thread; a suspended task resumes only once its own unit of
\* work has completed; and while a task is suspended the next pending
\* request is still handled
C11_LoopNeverBlocked ==
    /\ [][CallIssued => WorkerStep]_vars
    /\ [][\A u \in 1..Len(task) :
            (task[u].pc = "awaiting" /\ task'[u].pc # "awaiting")
            => (task[u].fut # None /\ u \notin running /\ u \notin constructing)]_vars
    /\ []((inbox # <<>> /\ \E u \in 1..Len(task) : Suspended(u)) => HandlerReady)

\* while an upload is suspended on its store call, a liveness probe that
\* arrived after it has been answered
C11_Witness ==
    /\ Len(task) = 2
    /\ task[1].ep = "image" /\ Suspended(1) /\ 1 \in running
    /\ task[2].ep = "live" /\ task[2].pc = "done"

\* -------------------------------------------- pool and client over a lifetime

InitLife ==
    /\ Boot
    /\ inbox \in [1..MaxLife -> {JpegUpload, [ep |-> "ready"]}]
    /\ backend = {"ok"}
    /\ uuid4 = <<1>>

NextLife ==
    \/ upload_image
    \/ readiness_probe
    \/ \E u \in 1..Len(task) : worker_start(u)
    \/ \E u \in 1..Len(task) : client_construct(u)
    \/ \E u \in 1..Len(task), outcome \in {"ok"} \cup Faults : worker_finish(u, outcome)
    \/ \E u \in 1..Len(task) : upload_resume(u)
    \/ \E u \in 1..Len(task) : readiness_probe_resume(u)
    \/ shutdown_executor_begin
    \/ shutdown_executor_end
    \/ lifespan_startup

SpecLife == InitLife /\ [][NextLife]_vars

PoolIds == 1..Len(pools)

\* every unit submitted to a released pool has finished its backend call
Drained ==
    \A p \in PoolIds :
       pools[p].state = "released"
       => \A u \in pools[p].units : task[u].fut # None /\ u \notin running

\* shutdown_executor has been called at least once on a pool
ShutdownBegun == \E p \in PoolIds : pools[p].state # "live"

\* the step submits a unit of work to some pool
UnitAccepted ==
    \/ Len(pools') > Len(pools)
    \/ \E p \in PoolIds : pools'[p].units # pools[p].units

\* C12 as stated: a released pool has finished every unit submitted to it,
\* and once shutdown has begun no pool of the process accepts a unit
C12_AsStated ==
    /\ []Drained
    /\ [][ShutdownBegun => ~UnitAccepted]_vars

\* C12: a released pool has finished every unit submitted to it, and a pool
\* that is shutting down or released accepts no further unit
C12_ShutdownDrains ==
    /\ []Drained
    /\ [][\A p \in PoolIds :
            pools[p].state # "live"
            => (pools'[p].units = pools[p].units /\ pools'[p].state # "live")]_vars

\* shutdown has returned and the pool is released, while the coroutine of a
\* unit it drained has not yet been resumed
C12_Witness ==
    /\ lifespan = "stopped"
    /\ \E p \in PoolIds :
          /\ pools[p].state = "released"
          /\ \E u \in pools[p].units :
                task[u].pc = "awaiting" /\ task[u].fut # None

\* C13 as stated: one pool and one client are constructed, at most
C13_AsStated == Len(pools) <= 1 /\ clients_built <= 1

\* C13: at most one pool is held at a time and one is constructed only when
\* none is held; a client is constructed only by a thread that found none
\* assigned, and once one is assigned and no first use is in progress no
\* other is constructed
C13_LazySingletons ==
    /\ [](Cardinality({p \in PoolIds : pools[p].state # "released"}) <= 1)
    /\ [][Len(pools') > Len(pools) => _executor = NoPool]_vars
    /\ [][~(constructing' \subseteq constructing) => _client = NoClient]_vars
    /\ [][(_client # NoClient /\ constructing = {})
            => (clients_built' = clients_built /\ _client' = _client)]_vars

\* two uploads and a probe went through one pool and one client
C13_Witness ==
    /\ Len(put_calls) >= 2
    /\ head_calls >= 1
    /\ clients_built = 1
    /\ Len(pools) = 1
    /\ \A u \in 1..Len(task) : task[u].pc = "done"

\* ------------------------------------------------- the order of one upload

Uploads == {u \in 1..Len(task) : task[u].ep \in {"bridge", "base64", "image"}}

\* the UploadResult the caller of unit u holds
ResultOf(u) ==
    IF task[u].ep = "bridge" THEN task[u].out.value ELSE task[u].out.value.data

\* the step in which the caller of unit u receives an UploadResult
ResultReturned(u) ==
    task[u].out = None /\ task'[u].out # None /\ task'[u].out.ok

\* C14: when the store call of an upload begins its key has been generated
\* and the call carries that key, and when the caller receives the result
\* that store call has completed and the result carries the same key
C14_UploadCausalOrder ==
    /\ [][Len(put_calls') > Len(put_calls)
            => LET c == put_calls'[Len(put_calls')]
               IN  /\ task[c.unit].call # None
                   /\ c.call.key = task[c.unit].call.key]_vars
    /\ [][\A u \in Uploads :
            ResultReturned(u)
            => /\ \E n \in 1..Len(finish_order) : finish_order[n] = u
               /\ task[u].fut # None /\ task[u].fut.ok
               /\ Cardinality(PutCallsOf(u)) = 1
               /\ \A n \in PutCallsOf(u) :
                     (IF task[u].ep = "bridge" THEN task'[u].out.value
                      ELSE task'[u].out.value.data).object_key = put_calls[n].call.key]_vars

\* an upload has returned the key under which its completed store call ran
C14_Witness ==
    \E u \in Uploads :
       /\ task[u].pc = "done" /\ task[u].out.ok
       /\ \E n \in PutCallsOf(u) : ResultOf(u).object_key = put_calls[n].call.key
       /\ \E n \in 1..Len(finish_order) : finish_order[n] = u

\* C15: an upload issues at most one store call, and once that call has
\* failed the unit is neither queued nor run again and the upload ends with
\* UploadFailed
C15_NoRetry ==
    \A u \in Uploads :
       /\ Cardinality(PutCallsOf(u)) <= 1
       /\ (task[u].fut # None /\ ~task[u].fut.ok)
          => /\ u \notin running
             /\ \A n \in 1..Len(work_queue) : work_queue[n] # u
             /\ task[u].pc = "done" => task[u].out = Raise(TosUploadError)
       /\ (PutCallsOf(u) # {} /\ u \notin running /\ task[u].pc = "awaiting")
          => task[u].fut # None

\* an upload whose one store call raised a server fault ended with UploadFailed
C15_Witness ==
    \E u \in Uploads :
       /\ task[u].pc = "done"
       /\ task[u].fut = Raise(RawFault("TosServerError"))
       /\ task[u].out = Raise(TosUploadError)
       /\ Cardinality(PutCallsOf(u)) = 1

\* --------------------------------------------------------- base64 uploads

Base64Uploads == {u \in 1..Len(task) : task[u].ep = "base64"}

\* nothing was handed to a pool and no key was generated for unit u
NothingDispatched(u) ==
    /\ task[u].call = None
    /\ PutCallsOf(u) = {}
    /\ \A p \in PoolIds : u \notin pools[p].units

\* C16: a base64 upload whose encoded length exceeds
\* max_file_size_mb * 1024 * 1024 * 4 \div 3 ends with FileSizeExceeded, also
\* when its text is no base64 at all, and generates no key and dispatches
\* nothing
C16_OversizedBase64Rejected ==
    \A u \in Base64Uploads :
       StrLen(task[u].arg.request.image_base64) > max_base64_size
       => /\ task[u].pc = "done"
          /\ task[u].out = Raise(FileSizeExceededError)
          /\ NothingDispatched(u)

\* an oversized text that is no base64 was rejected for its size
C16_Witness ==
    \E u \in Base64Uploads :
       /\ task[u].arg.request.image_base64 = OversizeBadBase64
       /\ ~decode_base64_image_fast(OversizeBadBase64).ok
       /\ task[u].out = Raise(FileSizeExceededError)

\* ------------------------------------------------------------ the decoder

\* a direct call of TosClient.decode_base64_image_fast
decode_call ==
    /\ serving
    /\ inbox # <<>>
    /\ Head(inbox).ep = "decode"
    /\ inbox' = Tail(inbox)
    /\ LET dec == decode_base64_image_fast(Head(inbox).base64_data)
       IN  task' = Append(task,
                      Coroutine("decode", "done", None,
                                IF dec.ok THEN Return(dec.bytes) ELSE Raise(dec.error),
                                Head(inbox)))
    /\ UNCHANGED <<poolVars, envVars, batchVars, healthVars, lifeVars>>

TextChars == {"A", "/", "=", ",", "!"}

RECURSIVE TextsOfLen(_)
TextsOfLen(n) ==
    IF n = 0 THEN {<<>>}
    ELSE {Append(t, c) : t \in TextsOfLen(n - 1), c \in TextChars}

Texts == UNION {TextsOfLen(n) : n \in 0..MaxText}

InitDecode ==
    /\ Boot
    /\ inbox \in {<<[ep |-> "decode", base64_data |-> Str(t, 0)]>> : t \in Texts}
    /\ backend = {"ok"}
    /\ uuid4 = <<1>>

NextDecode == decode_call

SpecDecode == InitDecode /\ [][NextDecode]_vars

\* the text after the first comma, the whole text when it has none
Payload(s) ==
    IF \E k \in 1..Len(s.text) : s.text[k] = ","
    THEN LET k == CHOOSE k \in 1..Len(s.text) :
                     s.text[k] = "," /\ \A j \in 1..(k - 1) : s.text[j] # ","
         IN  Str(SubSeq(s.text, k + 1, Len(s.text)), s.more)
    ELSE s

\* base64 as RFC 4648 writes it: characters of the alphabet in groups of
\* four, the last group completed by at most two pads
WellFormedBase64(s) ==
    LET npad  == TrailingPad(s.text)
        chars == SubSeq(s.text, 1, Len(s.text) - npad)
    IN  /\ \A i \in 1..Len(chars) : chars[i] \in B64Chars
        /\ (s.more > 0 => npad = 0)
        /\ npad <= 2
        /\ ((Len(chars) + s.more + npad) % 4) = 0

DecodeCalls == {u \in 1..Len(task) : task[u].ep = "decode"}

\* C18: a text m + "," + b, where m has no comma and b is base64 the decoder
\* accepts on its own, decodes to the bytes b decodes to
C18_DataUrlPrefixEquivalence ==
    \A u \in DecodeCalls :
       LET t == task[u].arg.base64_data
           b == Payload(t)
       IN  (b # t /\ FindComma(b.text) = -1 /\ decode_base64_image_fast(b).ok)
           => task[u].out = Return(decode_base64_image_fast(b).bytes)

\* the text "!,AAAA" was decoded to the three bytes of "AAAA"
C18_Witness ==
    \E u \in DecodeCalls :
       /\ task[u].arg.base64_data = Str(<<"!", ",", "A", "A", "A", "A">>, 0)
       /\ task[u].out = Return(Bytes(<<0, 0, 0>>, 0))
       /\ decode_base64_image_fast(Str(<<"A", "A", "A", "A">>, 0)).bytes
             = Bytes(<<0, 0, 0>>, 0)

\* C17: a base64 upload whose payload, the text after its first comma, is
\* not well-formed base64 ends with Base64DecodeFailed and dispatches nothing
C17_MalformedBase64Rejected ==
    \A u \in Base64Uploads :
       LET t == task[u].arg.request.image_base64
       IN  (StrLen(t) <= max_base64_size /\ ~WellFormedBase64(Payload(t)))
           => /\ task[u].pc = "done"
              /\ task[u].out = Raise(Base64DecodeError)
              /\ NothingDispatched(u)

\* ------------------------------------------------------------ the sniffer

\* a direct call of TosClient._validate_image_bytes_fast
sniff_call ==
    /\ serving
    /\ inbox # <<>>
    /\ Head(inbox).ep = "sniff"
    /\ inbox' = Tail(inbox)
    /\ task' = Append(task,
                  Coroutine("sniff", "done", None,
                            Return(_validate_image_bytes_fast(Head(inbox).data)),
                            Head(inbox)))
    /\ UNCHANGED <<poolVars, envVars, batchVars, healthVars, lifeVars>>

\* the first bytes of a value: the three signatures, their proper prefixes,
\* signatures with one byte changed, and a signature one byte late
SniffStarts ==
    { <<>>, <<255>>, <<255, 216>>, <<255, 216, 255>>, <<255, 216, 255, 224>>,
      <<255, 216, 254, 224>>, <<0, 255, 216, 255>>,
      <<137, 80, 78>>, <<137, 80, 78, 71>>, <<137, 80, 78, 72>>,
      <<82, 73, 70>>, <<82, 73, 70, 70>>, <<82, 73, 70, 71>>,
      <<0, 0, 0, 0>> }

\* what follows the filler: nothing, the WEBP tag, three bytes of it, WAVE
SniffTags == { <<>>, WEBP_TAG, <<87, 69, 66>>, <<87, 65, 86, 69>> }

Zeros(n) == [i \in 1..n |-> 0]

SniffData ==
    { Bytes(s \o Zeros(f) \o t, m) :
        s \in SniffStarts, f \in 0..MaxFill, t \in SniffTags, m \in 0..MaxTail }

InitSniff ==
    /\ Boot
    /\ inbox \in {<<[ep |-> "sniff", data |-> d]>> : d \in SniffData}
    /\ backend = {"ok"}
    /\ uuid4 = <<1>>

NextSniff == sniff_call

SpecSniff == InitSniff /\ [][NextSniff]_vars

SniffCalls == {u \in 1..Len(task) : task[u].ep = "sniff"}

\* the value is at least as long as sig and its first bytes are sig
StartsWith(d, sig) ==
    /\ BytesLen(d) >= Len(sig)
    /\ \A i \in 1..Len(sig) : ByteAt(d, i) = sig[i]

\* the value has bytes at offsets off .. off + Len(sig) - 1 and they are sig
HasAt(d, off, sig) ==
    /\ BytesLen(d) >= off + Len(sig)
    /\ \A i \in 1..Len(sig) : ByteAt(d, off + i) = sig[i]

\* the reference: FF D8 FF, 89 50 4E 47, "RIFF" with "WEBP" at offset 8
SniffReference(d) ==
    IF BytesLen(d) < 4 THEN NoFormat
    ELSE IF StartsWith(d, <<255, 216, 255>>) THEN "jpeg"
    ELSE IF StartsWith(d, <<137, 80, 78, 71>>) THEN "png"
    ELSE IF StartsWith(d, <<82, 73, 70, 70>>) /\ HasAt(d, 8, <<87, 69, 66, 80>>)
         THEN "webp"
    ELSE NoFormat

\* C19: every call of the sniffer returns, and returns what the reference
\* gives for its byte string
C19_SnifferEqualsReference ==
    \A u \in SniffCalls :
       /\ task[u].pc = "done"
       /\ task[u].out = Return(SniffReference(task[u].arg.data))

\* a RIFF container with WAVE at offset 8 was sniffed and gave no match
C19_Witness ==
    \E u \in SniffCalls :
       /\ task[u].arg.data = Bytes(<<82, 73, 70, 70, 0, 0, 0, 0, 87, 65, 86, 69>>, 0)
       /\ task[u].out = Return(NoFormat)

\* ------------------------------------------------------------ object keys

\* datetime.now() moves on between two reads, by less or more than the
\* 100 microseconds the timestamp of a key resolves
ClockSteps == {50, 100}

wall_advance ==
    /\ \E dt \in ClockSteps : wall + dt <= MaxWall /\ wall' = wall + dt
    /\ UNCHANGED <<inbox, task, poolVars, backend, uuid4, batchVars, healthVars,
                   lifeVars>>

\* prefixes of different lengths, one of them a character of the id
KeyPrefixes == {"", "0", "generated/"}

KeyRequests ==
    [ep : {"bridge"}, data : {JpegBytes}, format : ImageFormat,
     prefix : KeyPrefixes, validate : {FALSE}]

InitKeys ==
    /\ Boot
    /\ inbox \in [1..MaxKeys -> KeyRequests]
    /\ backend = {"ok"}
    /\ uuid4 \in [1..MaxKeys -> 1..MaxUid]

NextKeys ==
    \/ bridge_call
    \/ wall_advance
    \/ \E u \in 1..Len(task) : worker_start(u)
    \/ \E u \in 1..Len(task) : client_construct(u)
    \/ \E u \in 1..Len(task) : worker_finish(u, "ok")
    \/ \E u \in 1..Len(task) : upload_resume(u)

SpecKeys == InitKeys /\ [][NextKeys]_vars

HexDigits ==
    <<"0", "1", "2", "3", "4", "5", "6", "7", "8", "9", "a", "b", "c", "d", "e", "f">>

\* uuid4().hex[:12] as text: twelve hexadecimal digits
hex12(id) == "00000000000" \o HexDigits[id + 1]

\* strftime("%Y%m%d_%H%M%S_%f")[:20] as text: twenty characters, the last
\* four the ten-thousandths of the second
strftime20(timestamp) ==
    "20261103_000000_" \o HexDigits[((timestamp \div 1000) % 10) + 1]
                       \o HexDigits[((timestamp \div 100) % 10) + 1]
                       \o HexDigits[((timestamp \div 10) % 10) + 1]
                       \o HexDigits[(timestamp % 10) + 1]

\* the f-string of _generate_object_key: the text of a key
KeyText(object_key) ==
    object_key[1] \o hex12(object_key[2]) \o object_key[3]
                  \o strftime20(object_key[4]) \o object_key[5]

\* the calls that generated a key
KeyCalls ==
    {u \in 1..Len(task) : task[u].call # None /\ task[u].call.op = "put_object"}

\* the value uuid4 gave to the key generator in call u
DrawOf(u) ==
    uuid4[(Cardinality({v \in KeyCalls : v < u}) % Len(uuid4)) + 1]

\* C20 as stated: no two calls of the key generator return the same key
C20_AsStated ==
    \A u, v \in KeyCalls :
       u # v => KeyText(task[u].call.key) # KeyText(task[v].call.key)

\* C20: two calls of the key generator return the same key only when they
\* have the same prefix and format, read the same time to 100 microseconds
\* and were given the same twelve digits by uuid4
C20_KeysEqualOnlyIfDrawsCoincide ==
    \A u, v \in KeyCalls :
       (u # v /\ KeyText(task[u].call.key) = KeyText(task[v].call.key))
          => /\ DrawOf(u) = DrawOf(v)
             /\ task[u].call.key[4] = task[v].call.key[4]
             /\ task[u].arg.prefix = task[v].arg.prefix
             /\ task[u].arg.format = task[v].arg.format

\* two uploads in flight at once, with the same prefix and format and the same
\* timestamp, got different ids from uuid4 and hold different keys
C20_Witness ==
    \E u, v \in KeyCalls :
       /\ u # v
       /\ task[u].pc = "awaiting" /\ task[v].pc = "awaiting"
       /\ task[u].arg.prefix = task[v].arg.prefix
       /\ task[u].arg.format = task[v].arg.format
       /\ task[u].call.key[4] = task[v].call.key[4]
       /\ DrawOf(u) # DrawOf(v)
       /\ KeyText(task[u].call.key) # KeyText(task[v].call.key)

\* the extension the formats are documented to have
ExtensionOf(format) ==
    CASE format = "jpeg" -> ".jpg"
      [] format = "png"  -> ".png"
      [] format = "webp" -> ".webp"

\* C21: the text of every generated key is the prefix of the call as given,
\* the twelve hexadecimal digits drawn from uuid4, "_", the twenty characters
\* of the timestamp and the extension of the requested format
C21_KeyShape ==
    \A u \in KeyCalls :
       LET r   == task[u].arg
           key == task[u].call.key
       IN  /\ Len(hex12(DrawOf(u))) = 12
           /\ Len(strftime20(key[4])) = 20
           /\ key[4] <= Timestamp(wall)
           /\ KeyText(key) = r.prefix \o hex12(DrawOf(u)) \o "_"
                                      \o strftime20(key[4]) \o ExtensionOf(r.format)

\* a WEBP key was generated for the prefix "0" with the id 1 at instant 0
C21_Witness ==
    \E u \in KeyCalls :
       /\ task[u].arg.prefix = "0"
       /\ task[u].arg.format = "webp"
       /\ KeyText(task[u].call.key) = "0000000000001_20261103_000000_0000.webp"

\* ------------------------------------------------- the timestamp of a key

\* a direct call of TosClient._generate_object_key: the record of the call
\* holds its arguments and the instant datetime.now() gave it
key_call ==
    /\ serving
    /\ inbox # <<>>
    /\ Head(inbox).ep = "key"
    /\ inbox' = Tail(inbox)
    /\ LET r  == Head(inbox)
           id == uuid4[(Len(task) % Len(uuid4)) + 1]
       IN  task' = Append(task,
                      Coroutine("key", "done", None,
                                Return(_generate_object_key(r.prefix, r.format, id,
                                                            Timestamp(wall))),
                                [prefix |-> r.prefix, format |-> r.format,
                                 now |-> wall]))
    /\ UNCHANGED <<poolVars, envVars, batchVars, healthVars, lifeVars>>

\* one microsecond passes
wall_tick ==
    /\ wall < MaxWall
    /\ wall' = wall + 1
    /\ UNCHANGED <<inbox, task, poolVars, backend, uuid4, batchVars, healthVars,
                   lifeVars>>

InitStamp ==
    /\ Boot
    /\ inbox \in [1..MaxKeys -> [ep : {"key"}, prefix : {"generated/"},
                                format : {"jpeg"}]]
    /\ backend = {"ok"}
    /\ uuid4 = <<1>>

NextStamp == key_call \/ wall_tick

SpecStamp == InitStamp /\ [][NextStamp]_vars

StampCalls == {u \in 1..Len(task) : task[u].ep = "key"}

\* C22: two keys generated at instants that differ by a microsecond or more
\* have different timestamp components
C22_MicrosecondTimestamps ==
    \A u, v \in StampCalls :
       task[u].arg.now # task[v].arg.now
          => strftime20(task[u].out.value[4]) # strftime20(task[v].out.value[4])

\* ------------------------------------------------- the result of an upload

\* the prefix and the format the caller of upload u gave
PrefixOf(u) ==
    IF task[u].ep = "base64" THEN task[u].arg.request.prefix ELSE task[u].arg.prefix

FormatOf(u) ==
    IF task[u].ep = "base64" THEN task[u].arg.request.format
    ELSE IF task[u].ep = "image" THEN ALLOWED_CONTENT_TYPES[task[u].arg.content_type]
    ELSE task[u].arg.format

\* the MIME type the formats are documented to have
MimeOf(format) ==
    CASE format = "jpeg" -> "image/jpeg"
      [] format = "png"  -> "image/png"
      [] format = "webp" -> "image/webp"

\* C23: the UploadResult of a successful upload describes the one store call
\* issued for it: the key of that call, which begins with the caller's prefix,
\* the etag the backend gave that call, the length stored, the MIME type of
\* the format and the public URL of the key; an endpoint returns it in an
\* envelope with success true and code 0
C23_ResultDescribesStoreCall ==
    \A u \in Uploads :
       (task[u].pc = "done" /\ task[u].out.ok)
          => /\ Cardinality(PutCallsOf(u)) = 1
             /\ \A n \in PutCallsOf(u) :
                   LET r == ResultOf(u)
                       c == put_calls[n].call
                   IN  /\ r.object_key = c.key
                       /\ c.key[1] = PrefixOf(u)
                       /\ r.etag = <<"etag", n>>
                       /\ r.size_bytes = c.content_length
                       /\ c.content_length = BytesLen(c.content)
                       /\ r.content_type = MimeOf(FormatOf(u))
                       /\ c.content_type = r.content_type
                       /\ r.public_url
                             = <<"https://", "aipohto-lky.tos-ap-southeast-1.volces.com", "/">>
                                  \o c.key
             /\ task[u].ep # "bridge"
                   => /\ task[u].out.value.success = TRUE
                      /\ task[u].out.value.code = 0

\* two uploads were in the pool together and both succeeded, the one whose
\* store call was issued second finishing first; each holds its own etag
C23_Witness ==
    \E u, v \in Uploads :
       /\ u # v
       /\ task[u].pc = "done" /\ task[u].out.ok
       /\ task[v].pc = "done" /\ task[v].out.ok
       /\ \E m, n \in 1..Len(put_calls) :
             /\ m < n
             /\ put_calls[m].unit = u /\ put_calls[n].unit = v
             /\ ResultOf(u).etag = <<"etag", m>>
             /\ ResultOf(v).etag = <<"etag", n>>
       /\ finish_order = <<v, u>>

\* ---------------------------------------------------------- the credential

\* Depends(verify_api_key) of the three upload endpoints raised: the endpoint
\* function is not called and the request ends with the AuthenticationError
verify_api_key_raise ==
    /\ serving
    /\ inbox # <<>>
    /\ Head(inbox).ep \in {"base64", "image", "batch"}
    /\ ~verify_api_key(Head(inbox).x_api_key).ok
    /\ inbox' = Tail(inbox)
    /\ LET r   == Head(inbox)
           exc == Raise(verify_api_key(r.x_api_key).error)
       IN  IF r.ep = "batch"
           THEN /\ batch_pc = "none"
                /\ batch_pc' = "done"
                /\ batch_out' = exc
                /\ UNCHANGED <<task, requests, outer>>
           ELSE /\ task' = Append(task, Coroutine(r.ep, "done", None, exc, r))
                /\ UNCHANGED batchVars
    /\ UNCHANGED <<poolVars, envVars, healthVars, lifeVars>>

\* no header, an empty key, a key that is not the configured one, the key
Credentials == {NoHeader, Header(""), Header("invalid-key"), Header(api_key)}

AuthBodies ==
    Base64Requests
      \cup {JpegUpload, TextUpload, [JpegUpload EXCEPT !.file = OversizeBytes]}
      \cup {[ep |-> "batch", requests |-> b, x_api_key |-> Header(api_key)] :
               b \in {<<>>, LongBatch(1, 0), LongBatch(2, 0), LongBatch(2, 2),
                      LongBatch(MAX_BATCH + 1, 0)}}

AuthRequests == {[r EXCEPT !.x_api_key = k] : r \in AuthBodies, k \in Credentials}

InitAuth ==
    /\ Boot
    /\ inbox \in {<<r>> : r \in AuthRequests}
    /\ backend = {"ok"}
    /\ uuid4 = <<1, 2>>

NextAuth ==
    \/ verify_api_key_raise
    \/ upload_base64
    \/ upload_image
    \/ upload_batch
    \/ \E u \in 1..Len(task) : batch_item_step(u)
    \/ \E u \in 1..Len(task) : worker_start(u)
    \/ \E u \in 1..Len(task) : client_construct(u)
    \/ \E u \in 1..Len(task), outcome \in {"ok"} \cup Faults : worker_finish(u, outcome)
    \/ \E u \in 1..Len(task) : upload_resume(u)
    \/ \E u \in 1..Len(task) : batch_item_resume(u)
    \/ \E u \in 1..Len(task) : _done_callback(u)
    \/ upload_batch_resume

SpecAuth == InitAuth /\ [][NextAuth]_vars

\* the step ends the request r with the error err and does nothing else: no
\* outcome of a size check or a decode, no key, no unit of work, no backend call
RejectedWith(r, err) ==
    /\ IF r.ep = "batch"
       THEN /\ batch_pc' = "done"
            /\ batch_out' = [ok |-> FALSE, error |-> err]
            /\ task' = task
       ELSE /\ Len(task') = Len(task) + 1
            /\ task'[Len(task')].pc = "done"
            /\ task'[Len(task')].out = [ok |-> FALSE, error |-> err]
            /\ task'[Len(task')].call = None
            /\ SubSeq(task', 1, Len(task)) = task
    /\ UNCHANGED <<work_queue, running, put_calls, head_calls, uuid4,
                   _executor, pools, _client>>

\* C24: when an upload endpoint takes a request that carries no X-API-Key the
\* request ends with status 401 and code 40101, and when it carries a key
\* other than the configured one with status 401 and code 40102; in both
\* cases nothing of the core runs
C24_CredentialCheckedFirst ==
    [][(/\ inbox # <<>>
        /\ inbox' = Tail(inbox)
        /\ Head(inbox).ep \in {"base64", "image", "batch"})
       => LET r == Head(inbox)
          IN  /\ ~r.x_api_key.present
                 => RejectedWith(r, [code |-> 40101, status_code |-> 401])
              /\ (r.x_api_key.present /\ r.x_api_key.value # "test-api-key")
                 => RejectedWith(r, [code |-> 40102, status_code |-> 401])]_vars

\* an oversized base64 text that is no base64 came without a key and ended
\* with 40101, not with a size or a decode error
C24_Witness ==
    \E u \in 1..Len(task) :
       /\ task[u].ep = "base64"
       /\ task[u].arg.request.image_base64 = OversizeBadBase64
       /\ task[u].arg.x_api_key = NoHeader
       /\ task[u].out = Raise(AuthenticationError(ErrorCode.MISSING_API_KEY))
       /\ put_calls = <<>> /\ work_queue = <<>>

\* ------------------------------------------------------ errors on the wire

\* the request at the head of the inbox ends with the exception exc before
\* its endpoint has done anything
ends_with(exc) ==
    /\ serving
    /\ inbox # <<>>
    /\ Head(inbox).ep \in {"base64", "image", "batch"}
    /\ inbox' = Tail(inbox)
    /\ LET r == Head(inbox)
       IN  IF r.ep = "batch"
           THEN /\ batch_pc = "none"
                /\ batch_pc' = "done"
                /\ batch_out' = Raise(exc)
                /\ UNCHANGED <<task, requests, outer>>
           ELSE /\ task' = Append(task, Coroutine(r.ep, "done", None, Raise(exc), r))
                /\ UNCHANGED batchVars
    /\ UNCHANGED <<poolVars, envVars, healthVars, lifeVars>>

\* the statuses of the HTTPExceptions raised around an endpoint
HttpStatuses == {400, 413}

\* an HTTPException is raised while the request is handled
http_exception == \E status \in HttpStatuses : ends_with(HTTPException(status))

\* an exception that is neither a TosUploadException nor an HTTPException is
\* raised while the request is handled, outside every try block
uncaught_exception == ends_with(RawFault("Exception"))

InitErrors ==
    /\ Boot
    /\ inbox \in {<<r>> : r \in AuthRequests}
    /\ backend = {"ok", "TosServerError"}
    /\ uuid4 = <<1, 2>>

NextErrors ==
    \/ NextAuth
    \/ http_exception
    \/ uncaught_exception

SpecErrors == InitErrors /\ [][NextErrors]_vars

\* the exceptions with which requests have ended
ErrorsRaised ==
    {task[u].out.error : u \in {v \in 1..Len(task) :
                                   /\ task[v].ep \in {"base64", "image"}
                                   /\ task[v].pc = "done"
                                   /\ ~task[v].out.ok}}
      \cup (IF batch_pc = "done" /\ ~batch_out.ok THEN {batch_out.error} ELSE {})

\* an envelope with success false and no data
ErrorEnvelope(status, code) ==
    [status_code |-> status,
     content |-> [success |-> FALSE, code |-> code, data |-> [none |-> TRUE]]]

\* the seven kinds: code and status
ErrorKinds ==
    { <<40001, 400>>, <<40002, 400>>, <<40003, 400>>, <<40101, 401>>,
      <<40102, 401>>, <<50001, 500>>, <<50002, 500>> }

InitReady ==
    /\ Boot
    /\ inbox \in [1..MaxChecks -> {[ep |-> "health"], [ep |-> "ready"]}]
    /\ backend = {"ok", "TosServerError"}
    /\ uuid4 = <<1>>

NextReady ==
    \/ health_check
    \/ readiness_probe
    \/ \E u \in 1..Len(task) : worker_start(u)
    \/ \E u \in 1..Len(task), outcome \in {"ok"} \cup Faults : worker_finish(u, outcome)
    \/ \E u \in 1..Len(task) : health_check_resume(u)
    \/ \E u \in 1..Len(task) : readiness_probe_resume(u)
    \/ \E d \in TickSteps : Tick(d)

SpecReady == InitReady /\ [][NextReady]_vars

\* C26: a readiness probe taken up while the health cache holds an entry
\* younger than the TTL dispatches no backend probe
C26_ReadinessUsesCache ==
    [][(/\ inbox # <<>>
        /\ Head(inbox).ep = "ready"
        /\ inbox' = Tail(inbox)
        /\ _health_cache # None
        /\ clock - _health_cache.time < HEALTH_CACHE_TTL)
       => /\ work_queue' = work_queue
          /\ task'[Len(task')].call = None]_vars

\* ------------------------------------------------ the declared content type

ImageUploads == {u \in 1..Len(task) : task[u].ep = "image"}

\* C27: a multipart upload whose declared content type is absent or is not
\* image/jpeg, image/jpg, image/png or image/webp ends with InvalidFileFormat,
\* status 400 and code 40001, whatever the file holds and however long it is,
\* and nothing is dispatched for it
C27_ContentTypeRejectedFirst ==
    \A u \in ImageUploads :
       task[u].arg.content_type \notin {"image/jpeg", "image/jpg", "image/png",
                                         "image/webp"}
          => /\ task[u].pc = "done"
             /\ task[u].out = Raise([code |-> 40001, status_code |-> 400])
             /\ exception_response(task[u].out.error) = ErrorEnvelope(400, 40001)
             /\ NothingDispatched(u)
             /\ work_queue = <<>> /\ put_calls = <<>> /\ head_calls = 0

\* a file over the size limit declared as text/plain was refused for its
\* content type, not for its size
C27_Witness ==
    \E u \in ImageUploads :
       /\ task[u].arg.content_type = "text/plain"
       /\ task[u].arg.file = OversizeBytes
       /\ task[u].out = Raise(InvalidFileFormatError)
       /\ put_calls = <<>>

\* ------------------------------------------------------- the health report

\* the reachability value health check u used: what its probe gave, or the
\* value of the entry it read
ValueUsed(u) ==
    IF Probed(u) THEN task[u].fut.ok ELSE task[u].arg.cache_entry.tos_ok

\* C28: a health check that has ended has returned a report, never an error,
\* with status "healthy" and with tos_connection "ok" when the reachability
\* value it used is true and "error" when it is false
C28_HealthReport ==
    \A u \in HealthChecks :
       /\ task[u].pc # "done" => task[u].out = None
       /\ task[u].pc = "done"
          => /\ task[u].out.ok
             /\ task[u].out.value.status = "healthy"
             /\ task[u].out.value.tos_connection \in {"ok", "error"}
             /\ task[u].out.value.tos_connection = "ok" <=> ValueUsed(u)

\* a check answered from an entry that holds false returned a healthy report
\* with tos_connection "error"
C28_Witness ==
    \E u \in HealthChecks :
       /\ task[u].pc = "done"
       /\ ~Probed(u)
       /\ task[u].arg.cache_entry.tos_ok = FALSE
       /\ task[u].out = Return([status |-> "healthy", tos_connection |-> "error"])

\* ------------------------------------------------ one health check, one probe

\* health check u read an entry younger than 30 time units
ReadFresh(u) ==
    /\ task[u].arg.cache_entry # None
    /\ task[u].arg.current_time - task[u].arg.cache_entry.time < 30

\* C29: a health check that read an entry younger than 30 issued no probe and
\* returned the report of the stored value; any other check handed exactly
\* one probe to the worker pool, and the step in which it returns is the step
\* that stores the probe's result with the time the check read
C29_ProbeOnlyWhenStale ==
    /\ [](\A u \in HealthChecks :
            IF ReadFresh(u)
            THEN /\ task[u].call = None
                 /\ \A p \in PoolIds : u \notin pools[p].units
                 /\ task[u].pc = "done"
                 /\ task[u].out = Return(HealthResponse(task[u].arg.cache_entry.tos_ok))
            ELSE /\ task[u].call = HeadBucket
                 /\ Cardinality({p \in PoolIds : u \in pools[p].units}) = 1)
    /\ [](head_calls <= Cardinality({u \in HealthChecks : ~ReadFresh(u)}))
    /\ [][\A u \in HealthChecks :
            (task[u].pc = "awaiting" /\ task'[u].pc = "done")
            => /\ task[u].fut # None
               /\ _health_cache' = [tos_ok |-> task[u].fut.ok,
                                    time   |-> task[u].arg.current_time]
               /\ task'[u].out = Return(HealthResponse(task[u].fut.ok))]_vars

\* a check read an entry exactly 30 old, probed, and stored what the probe
\* gave with the time it had read; an earlier check had been answered from
\* an entry that held false
C29_Witness ==
    \E u, v \in HealthChecks :
       /\ v < u
       /\ ReadFresh(v) /\ ~task[v].arg.cache_entry.tos_ok
       /\ task[v].out = Return(HealthResponse(FALSE))
       /\ task[u].arg.cache_entry # None
       /\ task[u].arg.current_time - task[u].arg.cache_entry.time = 30
       /\ task[u].pc = "done"
       /\ task[u].call = HeadBucket
       /\ _health_cache = [tos_ok |-> task[u].fut.ok, time |-> task[u].arg.current_time]

\* C30: a write of the health cache never replaces an entry by one that
\* carries an older time
C30_CacheTimeMonotonic ==
    [][(_health_cache # None /\ _health_cache' # _health_cache)
       => _health_cache'.time >= _health_cache.time]_vars


\* ------------------------------------------ a failed batch and the pool

\* the units of work gather created for the batch
BatchUnits == {outer.children[i] : i \in 1..Len(outer.children)}

\* upload_batch has raised the error of one of its items
BatchFailed == batch_pc = "done" /\ BatchAdmitted /\ ~batch_out.ok

\* the store call of unit u is waiting in the pool's queue or is being
\* executed by a worker thread
Pending(u) ==
    \/ \E n \in 1..Len(work_queue) : work_queue[n] = u
    \/ u \in running

\* C31: once a batch has failed, no store call of the batch is queued or
\* executing on the pool, and no store call of the batch completes afterwards
C31_FailedBatchLeavesNothing ==
    /\ [](BatchFailed => \A u \in BatchUnits : ~Pending(u))
    /\ [][BatchFailed => finish_order' = finish_order]_vars

\* the batch has failed while the store call of another item is still in the
\* pool
C31_StoreCallOutlivesBatch ==
    /\ BatchFailed
    /\ \E u \in BatchUnits : Pending(u) /\ task[u].call.op = "put_object"

\* the batch has failed and the backend stored the object of another item
\* after the store call that failed the batch
C31_ObjectStoredAfterFailure ==
    /\ BatchFailed
    /\ \E m, n \in 1..Len(finish_order) :
          /\ m < n
          /\ ~task[finish_order[m]].fut.ok
          /\ task[finish_order[n]].fut.ok


\* ------------------------------------- what the endpoints send to the backend

\* a RIFF file that is not WEBP, declared as image/webp
WaveUpload ==
    [ep |-> "image", file |-> WaveBytes, content_type |-> "image/webp",
     prefix |-> "generated/", x_api_key |-> Header(api_key)]

\* requests to the three upload endpoints, with payloads the sniffer
\* recognises and payloads it rejects
StoreRequests ==
    {[ep |-> "base64", request |-> Base64UploadRequest(b, f, "generated/"),
      x_api_key |-> Header(api_key)] :
        b \in {JpegBase64, PngDataUrl, TextBase64}, f \in {"jpeg"}}
      \cup {JpegUpload, TextUpload, WaveUpload}
      \cup {[ep |-> "batch", requests |-> b, x_api_key |-> Header(api_key)] :
               b \in {<<Base64UploadRequest(JpegBase64, "jpeg", "generated/"),
                        Base64UploadRequest(TextBase64, "jpeg", "generated/")>>,
                      <<Base64UploadRequest(TextBase64, "png", "generated/"),
                        Base64UploadRequest(PngDataUrl, "png", "generated/")>>}}

InitStore ==
    /\ Boot
    /\ inbox \in [1..MaxReqs -> StoreRequests]
    /\ backend = {"ok"}
    /\ uuid4 = [i \in 1..(2 * MaxReqs) |-> i]

NextStore ==
    \/ upload_base64
    \/ upload_image
    \/ upload_batch
    \/ \E u \in 1..Len(task) : batch_item_step(u)
    \/ \E u \in 1..Len(task) : worker_start(u)
    \/ \E u \in 1..Len(task) : client_construct(u)
    \/ \E u \in 1..Len(task), outcome \in {"ok"} \cup Faults : worker_finish(u, outcome)
    \/ \E u \in 1..Len(task) : upload_resume(u)
    \/ \E u \in 1..Len(task) : batch_item_resume(u)
    \/ \E u \in 1..Len(task) : _done_callback(u)
    \/ upload_batch_resume

SpecStore == InitStore /\ [][NextStore]_vars

\* the units of work of the base64, the multipart and the batch endpoint
EndpointUploads ==
    {u \in 1..Len(task) : task[u].ep \in {"base64", "image", "batch_item"}}

\* the sniffer recognises the bytes as JPEG, PNG or WEBP
Recognised(data) == _validate_image_bytes_fast(data) \in {"jpeg", "png", "webp"}

\* C32: every store call dispatched or issued for the base64, the multipart
\* or the batch endpoint carries bytes the sniffer recognises as JPEG, PNG or
\* WEBP; no object whose bytes the sniffer rejects reaches the backend
C32_OnlyRecognisedBytesStored ==
    /\ \A u \in EndpointUploads :
          task[u].call # None => Recognised(task[u].call.content)
    /\ \A n \in 1..Len(put_calls) :
          put_calls[n].unit \in EndpointUploads
             => Recognised(put_calls[n].call.content)

\* after two requests the backend has been sent a recognised image by one
\* endpoint while an upload whose bytes the sniffer rejects ended with
\* InvalidFileFormat and no store call
C32_Witness ==
    /\ \E n \in 1..Len(put_calls) :
          /\ put_calls[n].unit \in EndpointUploads
          /\ Recognised(put_calls[n].call.content)
    /\ \E u \in EndpointUploads :
          /\ task[u].pc \in {"done", "collected"}
          /\ task[u].out = Raise(InvalidFileFormatError)
          /\ task[u].call = None
          /\ PutCallsOf(u) = {}


\* ------------------------------------- the encoded-length check and the bound

\* a JPEG payload of max_base64_size + k characters
NearBound(k) ==
    Str(<<"/", "9", "j", "/", "4", "A", "A", "A">>, (max_base64_size - 8) + k)

\* a data URL of max_base64_size + k characters: a marker of 23 characters
\* and a JPEG payload
NearBoundDataUrl(k) ==
    Str(<<"d", "a", "t", "a", ":", "i", "m", "a", "g", "e", "/", "j", "p", "e", "g",
          ";", "b", "a", "s", "e", "6", "4", ",",
          "/", "9", "j", "/", "4", "A", "A", "A">>, (max_base64_size - 31) + k)

\* payloads whose length is within MaxSlack of the bound, and a short one
BoundPayloads ==
    {NearBound(k) : k \in (0 - MaxSlack)..MaxSlack}
      \cup {NearBoundDataUrl(k) : k \in (0 - MaxSlack)..MaxSlack}
      \cup {JpegBase64}

BoundRequests ==
    {[ep |-> "base64", request |-> Base64UploadRequest(b, "jpeg", "generated/"),
      x_api_key |-> Header(api_key)] : b \in BoundPayloads}
      \cup {[ep |-> "batch",
             requests |-> <<Base64UploadRequest(JpegBase64, "jpeg", "generated/"),
                            Base64UploadRequest(b, "jpeg", "generated/")>>,
             x_api_key |-> Header(api_key)] : b \in BoundPayloads}

InitBound ==
    /\ Boot
    /\ inbox \in {<<r>> : r \in BoundRequests}
    /\ backend = {"ok"}
    /\ uuid4 = <<1, 2>>

NextBound ==
    \/ upload_base64
    \/ upload_batch
    \/ \E u \in 1..Len(task) : batch_item_step(u)
    \/ \E u \in 1..Len(task) : worker_start(u)
    \/ \E u \in 1..Len(task) : client_construct(u)
    \/ \E u \in 1..Len(task), outcome \in {"ok"} \cup Faults : worker_finish(u, outcome)
    \/ \E u \in 1..Len(task) : upload_resume(u)
    \/ \E u \in 1..Len(task) : batch_item_resume(u)
    \/ \E u \in 1..Len(task) : _done_callback(u)
    \/ upload_batch_resume

SpecBound == InitBound /\ [][NextBound]_vars

\* the units of work of the base64 and the batch endpoint
EncodedUploads == {u \in 1..Len(task) : task[u].ep \in {"base64", "batch_item"}}

\* the payload the request of unit u carried
PayloadOf(u) ==
    IF task[u].ep = "base64" THEN task[u].arg.request.image_base64
    ELSE requests[task[u].arg].image_base64

\* C33: a base64 payload of at most floor(max_file_size_mb * 1024 * 1024 * 4 / 3)
\* characters that decodes gives at most max_file_size_mb * 1024 * 1024 bytes,
\* and no store call of the base64 or the batch endpoint carries more
C33_DecodedSizeBounded ==
    /\ \A u \in EncodedUploads :
          LET image_bytes == decode_base64_image_fast(PayloadOf(u))
          IN  (StrLen(PayloadOf(u)) <= max_base64_size /\ image_bytes.ok)
                 => BytesLen(image_bytes.bytes) <= max_size_bytes
    /\ \A u \in EncodedUploads :
          task[u].call # None => task[u].call.content_length <= max_size_bytes
    /\ \A n \in 1..Len(put_calls) :
          put_calls[n].unit \in EncodedUploads
             => BytesLen(put_calls[n].call.content) <= max_size_bytes

\* the longest payload of the inputs that passes the check and decodes has
\* been sent to the backend by a batch item: max_base64_size - 1 characters,
\* max_size_bytes - 1 bytes
C33_Witness ==
    \E n \in 1..Len(put_calls) :
       LET u == put_calls[n].unit
       IN  /\ task[u].ep = "batch_item"
           /\ StrLen(PayloadOf(u)) = max_base64_size - 1
           /\ put_calls[n].call.content_length = max_size_bytes - 1

====
